---- MODULE Spec2Model ----
(***************************************************************************)
(* Process supervisors of scripts/dashboard_service.py                     *)
(* (NodeProcessSupervisor, WalletProcessSupervisor) as a state machine.    *)
(*                                                                         *)
(* The service runs on one asyncio event loop: a task runs without         *)
(* interruption from one await to the next, so every action below is one   *)
(* such run-to-suspension step of one task.  asyncio.Lock is FIFO: the     *)
(* head of lock[r] is the task that holds the lock (or has been handed it  *)
(* and has not run yet), the rest are the tasks waiting for it.            *)
(*                                                                         *)
(* Optional[T] values are sequences of length at most one: None is <<>>.   *)
(***************************************************************************)
EXTENDS Integers, Sequences, FiniteSets, TLC

\* ------------------------------------------------------------- bounds
\* start() and stop() calls issued against one supervisor
MaxCalls == 2
\* the same, in the specification of the races between three calls
MaxRaceCalls == 3
\* lines in the log tail: output is read while the tail is shorter
MaxLines == 1
MaxLogLines == 102
MaxLogStarts == 2
\* requests to the action routes, or invocations of dashboard.py
MaxRuns == 2
\* lines one command of an action writes
MaxOut == 1
\* actions in a list the catalog is built from
MaxActions == 3
\* start() calls while a subscription to the node's events is open
MaxRelayStarts == 1
\* connections the node accepts from the relay
MaxConns == 2
\* messages the node sends on one connection
MaxMessages == 2

\* --------------------------------------------------------- constants
\* _append_log keeps tail[-100:]
TailCap == 100

Roles == {"node", "wallet"}

None == <<>>
Some(x) == <<x>>
IsNone(o) == o = <<>>
Val(o) == o[1]

Last(s) == s[Len(s)]

\* tail[-n:]
LastN(s, n) == IF Len(s) <= n THEN s ELSE SubSeq(s, Len(s) - n + 1, Len(s))

Contains(s, x) == \E k \in 1..Len(s) : s[k] = x

\* process.returncode once the process has ended: 0, or 1 for every
\* non-zero value (an exit status, or minus the number of the signal that
\* ended it); the code only ever tests it against 0 and None
ExitCodes == {0, 1}

\* ---------------------------------------------------------- payloads
\* NodeRoutingPayload defaults
DefaultRouting ==
    [tls |-> FALSE, mtls |-> FALSE, doh |-> FALSE, vpn |-> FALSE,
     tor |-> FALSE, local_only |-> TRUE]

\* NodeLaunchPayload; the optional launch fields not listed are None
LaunchPayload(mode, peer, routing, pass) ==
    [mode |-> mode, host |-> "127.0.0.1", port |-> 8080, peer_url |-> peer,
     routing |-> routing, db_path |-> None, api_addr |-> None,
     api_token |-> None, miner_workers |-> None, note_tree_depth |-> None,
     miner_seed |-> None, wallet_store |-> None, wallet_passphrase |-> pass]

\* the launch requests the model issues against the node role
NodePayloads ==
    { LaunchPayload("genesis", None, DefaultRouting, Some("hunter2")),
      LaunchPayload("join", None, DefaultRouting, Some("hunter2")) }

\* WalletMaterial (AUTOSTART_WALLET_* defaults) with the node coordinates
\* WalletProcessSupervisor.start is given
WalletArgs ==
    { [material |-> [seed_hex |-> "seed", passphrase |-> "test passphrase",
                     store_path |-> "state/dashboard-wallet.store",
                     meta_path |-> "state/dashboard-wallet.meta.json",
                     api_host |-> "127.0.0.1", api_port |-> 61005],
       node_url |-> <<"http", "127.0.0.1", 8080>>,
       node_token |-> "devnet-token"] }

\* NodeLifecyclePayload
LifecyclePayload(mode, peer, routing) ==
    [mode |-> mode, host |-> "127.0.0.1", port |-> 8080, peer_url |-> peer,
     routing |-> routing]

\* the payloads POST /node/lifecycle is given: both modes, with and without
\* a peer, every NodeRoutingPayload
LifecyclePayloads ==
    { LifecyclePayload(mode, peer, routing) :
        mode \in {"genesis", "join"},
        peer \in {None, Some("http://peer:8080")},
        routing \in [tls : BOOLEAN, mtls : BOOLEAN, doh : BOOLEAN,
                     vpn : BOOLEAN, tor : BOOLEAN, local_only : BOOLEAN] }

\* a validation without the rule on `join` (C9 is checked against it)
ValidationFailsWithoutPeerRule(payload) ==
    \/ payload.routing.mtls /\ ~payload.routing.tls
    \/ payload.routing.local_only /\ (payload.routing.vpn \/ payload.routing.tor)

\* a validation that refuses local-only only with both relays enabled
ValidationFailsBothRelays(payload) ==
    \/ payload.mode = "join" /\ IsNone(payload.peer_url)
    \/ payload.routing.mtls /\ ~payload.routing.tls
    \/ payload.routing.local_only /\ payload.routing.vpn /\ payload.routing.tor

\* _validate_lifecycle_payload: TRUE when it raises HTTP 422
ValidationFails(payload) ==
    \/ payload.mode = "join" /\ IsNone(payload.peer_url)
    \/ payload.routing.mtls /\ ~payload.routing.tls
    \/ payload.routing.local_only /\ (payload.routing.vpn \/ payload.routing.tor)

\* _build_node_url
BuildNodeUrl(host, port, tls_enabled) ==
    <<IF tls_enabled THEN "https" ELSE "http", host, port>>

\* _routing_overlays
RoutingOverlays(routing) ==
    (IF routing.vpn THEN <<"vpn">> ELSE <<>>)
    \o (IF routing.tor THEN <<"tor">> ELSE <<>>)
    \o (IF routing.doh THEN <<"doh">> ELSE <<>>)

\* NODE_LIFECYCLE_STATE as built at import
InitLifecycle ==
    [mode |-> "genesis", host |-> "127.0.0.1", port |-> 8080,
     peer_url |-> None, routing |-> DefaultRouting, node_url |-> None,
     overlays |-> None]

\* _record_lifecycle: NODE_LIFECYCLE_STATE.update(...)
RecordLifecycle(payload) ==
    [mode |-> payload.mode, host |-> payload.host, port |-> payload.port,
     peer_url |-> payload.peer_url, routing |-> payload.routing,
     node_url |-> Some(BuildNodeUrl(payload.host, payload.port, payload.routing.tls)),
     overlays |-> Some(RoutingOverlays(payload.routing))]

\* NodeProcessSupervisor.start: the argument vector handed to the process
NodeCommand(payload) ==
    <<"cargo", "run", "-p", "node", "--bin", "hegemon", "--",
      "--db-path", "node.db", "--api-addr", "127.0.0.1:8080",
      "--api-token", "node-token">>
    \o (IF payload.routing.tls THEN <<"--tls">> ELSE <<>>)
    \o (IF ~IsNone(payload.wallet_passphrase)
        THEN <<"--wallet-passphrase", Val(payload.wallet_passphrase)>>
        ELSE <<>>)

\* NodeProcessSupervisor.start: sanitized_command
SanitizedCommand(command, payload) ==
    IF ~IsNone(payload.wallet_passphrase) /\ Val(payload.wallet_passphrase) # ""
    THEN [k \in 1..Len(command) |->
            IF command[k] = Val(payload.wallet_passphrase)
            THEN "<redacted>" ELSE command[k]]
    ELSE command

\* WalletProcessSupervisor.start: the argument vector handed to the process
WalletCommand(arg) ==
    <<"cargo", "run", "-p", "wallet", "--bin", "wallet", "--", "daemon",
      "--store", arg.material.store_path,
      "--passphrase", arg.material.passphrase,
      "--rpc-url", "node_url", "--auth-token", arg.node_token,
      "--http-listen", "127.0.0.1:61005">>

\* WalletProcessSupervisor.start: the command stored in WalletProcessState
WalletStoredCommand(command) == command

\* the passphrase a start() call hands to its process
Passphrase(r, arg) ==
    IF r = "node" THEN arg.wallet_passphrase ELSE Some(arg.material.passphrase)

\* NodeProcessState() / WalletProcessState() defaults
InitState ==
    [status |-> "idle", pid |-> None, started_at |-> None, exited_at |-> None,
     return_code |-> None, stderr_tail |-> <<>>, url |-> None,
     last_error |-> None, command |-> None]


\* ------------------------------------------------------------- state
VARIABLES
    active,                 \* the roles whose supervisor is exercised
    process,                \* [role -> Optional pid]: supervisor.process
    state,                  \* [role -> ProcessState]: supervisor.state
    lock,                   \* [role -> Seq(task)]: supervisor._lock, holder first
    procs,                  \* [role -> Seq(OS process)]: every process spawned
    starts,                 \* [role -> Seq(start() call)]
    stops,                  \* [role -> Seq(stop() call)]
    returned,               \* [role -> Optional]: the outcome of the call this step ended
    NODE_LIFECYCLE_STATE,   \* module global
    NODE_RPC,               \* module globals NODE_RPC_URL / NODE_RPC_TOKEN
    logfile,                \* [role -> lines arrived, and whether a write failed]
    cleanup,                \* Optional: the stop() call _shutdown_cleanup waits for
    CATALOG,                \* module global ACTIONS: the catalog, a dict in insertion order
    build,                  \* a list of actions and the dict _actions() makes of it
    run,                    \* Optional: the action run of the latest POST /run/{slug}
    http,                   \* Optional: the response this step sent
    cli,                    \* Optional: the latest invocation of dashboard.py
    served,                 \* requests and invocations so far
    stdout,                 \* Optional: the listing a command line printed
    relay,                  \* the _node_event_messages generator of one subscription
    ws,                     \* the node's event channel as the relay sees it
    yielded                 \* Optional: the payload the relay yielded in this step

\* the supervisors, and what they share with the rest of the service
supervisorVars == <<process, state, lock, procs, starts, stops, returned,
                    NODE_LIFECYCLE_STATE, NODE_RPC, logfile, cleanup>>

\* the action catalog, the runs of actions and the command line
engineVars == <<CATALOG, build, run, http, cli, served, stdout>>

\* the event relay
relayVars == <<relay, ws, yielded>>

vars == <<active, supervisorVars, engineVars, relayVars>>

\* the state one supervisor's code reads and writes; returned holds the
\* outcome of a call only in the state that call's last step produces
World(r) ==
    [process |-> process[r], state |-> state[r], lock |-> lock[r],
     procs |-> procs[r], starts |-> starts[r], stops |-> stops[r],
     returned |-> None, lifecycle |-> NODE_LIFECYCLE_STATE, rpc |-> NODE_RPC,
     logfile |-> logfile[r], cleanup |-> cleanup]

Commit(r, w) ==
    /\ process' = [process EXCEPT ![r] = w.process]
    /\ state' = [state EXCEPT ![r] = w.state]
    /\ lock' = [lock EXCEPT ![r] = w.lock]
    /\ procs' = [procs EXCEPT ![r] = w.procs]
    /\ starts' = [starts EXCEPT ![r] = w.starts]
    /\ stops' = [stops EXCEPT ![r] = w.stops]
    /\ returned' = [q \in Roles |-> IF q = r THEN w.returned ELSE None]
    /\ NODE_LIFECYCLE_STATE' = w.lifecycle
    /\ NODE_RPC' = w.rpc
    /\ logfile' = [logfile EXCEPT ![r] = w.logfile]
    /\ cleanup' = w.cleanup
    /\ http' = None
    /\ yielded' = None
    /\ UNCHANGED <<active, CATALOG, build, run, cli, served, stdout, relay, ws>>

\* ------------------------------------------------------ asyncio.Lock
Task(kind, id) == [kind |-> kind, id |-> id]

\* Lock.acquire: join the FIFO; the head owns the lock
Enqueue(w, me) == [w EXCEPT !.lock = Append(@, me)]

\* Lock.release: the next waiter, if any, is handed the lock
Release(w) == [w EXCEPT !.lock = Tail(@)]

HasLock(w, me) == w.lock # <<>> /\ Head(w.lock) = me

\* `async with self._lock:` reached by a task: when the lock is free the
\* task owns it at once and its body runs in the same step, otherwise the
\* task parks until it is handed the lock
LockFree(w) == w.lock = <<>>

\* ------------------------------------------------------- OS processes
\* asyncio.subprocess.Process: returncode, the position of the
\* _wait_for_exit task made for it, and the start() call that spawned it
NewProc(i) == [rc |-> None, waiter |-> "await", by |-> i]

\* process.returncode
ReturnCode(w, p) == w.procs[p].rc

Alive(proc) == IsNone(proc.rc)

\* ----------------------------------------------------------- results
\* what a call hands back: an HTTP status with the keys of its detail, or
\* the snapshot returned; raised names the exception that left the call
Result(code, raised) ==
    [code |-> code, raised |-> raised, keys |-> {}, error |-> None,
     stderr |-> <<>>, return_code |-> None, snapshot |-> None]

Message(kind, hint) == [kind |-> kind, hint |-> hint]

\* HTTPException(status_code=409, detail={"error": ...})
Conflict ==
    [Result(409, "HTTPException") EXCEPT
        !.keys = {"error"}, !.error = Some(Message("already running", None))]

\* HTTPException(status_code=422, ...) of _validate_lifecycle_payload
Invalid ==
    [Result(422, "HTTPException") EXCEPT
        !.keys = {"error"}, !.error = Some(Message("invalid payload", None))]

\* HTTPException(status_code=500, detail={"error": message})
ServerError(message) ==
    [Result(500, "HTTPException") EXCEPT
        !.keys = {"error"}, !.error = Some(message)]

\* snapshot(): asdict(self.state)
Snapshot(w) == w.state

\* a start() call that has ended keeps no locals
EndedStart ==
    [pc |-> "done", arg |-> None, cargo |-> "", proc |-> None, message |-> None]

\* start() call i ends with res
Finish(w, i, res) ==
    [w EXCEPT !.starts[i] = EndedStart,
              !.returned = Some([call |-> "start", id |-> i,
                                 arg |-> w.starts[i].arg,
                                 cargo |-> w.starts[i].cargo,
                                 proc |-> w.starts[i].proc, res |-> res])]

\* stop() call j returns (None); proc is the process it has waited for
FinishStop(w, j, proc) ==
    [w EXCEPT !.stops[j] = [pc |-> "done", process |-> None],
              !.returned = Some([call |-> "stop", id |-> j, arg |-> None,
                                 cargo |-> "", proc |-> proc,
                                 res |-> Result(0, "")])]

\* ------------------------------------------------------------ start()
\* What the host holds when the call looks for cargo: "missing" (neither on
\* the search path nor at ~/.cargo/bin/cargo), "unrunnable" (a path is
\* found and create_subprocess_exec raises FileNotFoundError) or "ok"
Toolchains == {"missing", "unrunnable", "ok"}

\* a search that always comes back with a path (C6 is checked against it)
CargoPathAlwaysFound(cargo) == TRUE

\* `cargo_path` after shutil.which and the fallback: TRUE when one is found
CargoPath(cargo) == cargo # "missing"

\* a conflict check that looks at the handle alone
AlreadyRunningAnyHandle(w) == ~IsNone(w.process)

\* `if self.process and self.process.returncode is None`
AlreadyRunning(w) ==
    ~IsNone(w.process) /\ IsNone(ReturnCode(w, Val(w.process)))

\* NodeProcessSupervisor.start, from the lock to the spawn:
\* the conflict check, _record_lifecycle, the new NodeProcessState and the
\* search for cargo (shutil.which, then the ~/.cargo/bin fallback)
NodeStartLocked(w, i) ==
    LET found == CargoPath(w.starts[i].cargo)
        payload == Val(w.starts[i].arg)
        command == NodeCommand(payload)
        node_url == BuildNodeUrl(IF payload.routing.local_only
                                 THEN "127.0.0.1" ELSE payload.host,
                                 payload.port, payload.routing.tls)
        w1 == [w EXCEPT
                 !.lifecycle = RecordLifecycle(payload),
                 !.state = [InitState EXCEPT
                              !.status = "starting",
                              !.started_at = Some("now"),
                              !.url = Some(node_url),
                              !.command = Some(SanitizedCommand(command, payload))]]
        message == Message("cargo not found", None)
    IN  IF AlreadyRunning(w) THEN Release(Finish(w, i, Conflict))
        ELSE IF ~found
        THEN Release(Finish([w1 EXCEPT !.state.status = "error",
                                       !.state.last_error = Some(message)],
                            i, ServerError(message)))
        ELSE [w1 EXCEPT !.starts[i].pc = "spawning"]

\* WalletProcessSupervisor.start, from the lock to the spawn
WalletStartLocked(w, i) ==
    LET found == CargoPath(w.starts[i].cargo)
        message == Message("cargo not found", None)
    IN  IF AlreadyRunning(w) THEN Release(Finish(w, i, Conflict))
        ELSE IF ~found
        THEN Release(Finish([w EXCEPT !.state.status = "error",
                                      !.state.last_error = Some(message)],
                            i, ServerError(message)))
        ELSE [w EXCEPT !.starts[i].pc = "spawning"]

StartLocked(r, w, i) ==
    IF r = "node" THEN NodeStartLocked(w, i) ELSE WalletStartLocked(w, i)

\* create_subprocess_exec raised FileNotFoundError
SpawnFailed(r, w, i) ==
    LET exc == Message("FileNotFoundError", None)
        w1 == [w EXCEPT !.state.status = "error",
                        !.state.last_error = Some(exc)]
    IN  Release(Finish(w1, i,
            ServerError(IF r = "node"
                        THEN Message("Failed to start node process", None)
                        ELSE exc)))

\* NodeProcessSupervisor.start after create_subprocess_exec returned:
\* the handle, the pid, _set_node_rpc, the two tasks; the lock is released
\* and the call sleeps for the grace interval
NodeSpawned(w, i) ==
    LET p == Len(w.procs) + 1
    IN  Release([w EXCEPT
            !.procs = Append(@, NewProc(i)),
            !.process = Some(p),
            !.state.pid = Some(p),
            !.rpc = Some([url |-> Val(w.state.url), token |-> "node-token"]),
            !.starts[i].pc = "grace",
            !.starts[i].proc = Some(p)])

\* WalletProcessSupervisor.start after create_subprocess_exec returned
WalletSpawned(w, i) ==
    LET p == Len(w.procs) + 1
        arg == Val(w.starts[i].arg)
    IN  Release([w EXCEPT
            !.procs = Append(@, NewProc(i)),
            !.process = Some(p),
            !.state = [InitState EXCEPT
                         !.status = "starting",
                         !.pid = Some(p),
                         !.started_at = Some("now"),
                         !.url = Some(<<"http", arg.material.api_host,
                                        arg.material.api_port>>),
                         !.command = Some(WalletStoredCommand(WalletCommand(arg)))],
            !.starts[i].pc = "grace",
            !.starts[i].proc = Some(p)])

Spawned(r, w, i) ==
    IF r = "node" THEN NodeSpawned(w, i) ELSE WalletSpawned(w, i)

\* after the sleep: `if self.process and self.process.returncode is not None`
ExitedDuringStartup(w) ==
    ~IsNone(w.process) /\ ~IsNone(ReturnCode(w, Val(w.process)))

\* the message built before the lock is taken: the last line of the tail
StartupMessage(w) ==
    Message("exited during startup",
            IF w.state.stderr_tail # <<>>
            THEN Some(Last(w.state.stderr_tail)) ELSE None)

\* the keys of the detail raised for a startup failure
StartupDetailKeys(r) ==
    IF r = "node" THEN {"error", "stderr", "log_path", "return_code"}
    ELSE {"error", "stderr", "log_path"}

\* start(), the startup-failure branch under the lock, and the raise.
\* self.process.returncode is read from the handle as it is then: with the
\* handle cleared meanwhile the read raises AttributeError
StartupFailedLocked(r, w, i) ==
    LET message == Val(w.starts[i].message)
        w1 == [w EXCEPT !.state.status = "error",
                        !.state.last_error = Some(message),
                        !.state.exited_at = Some("now")]
        w2 == [w1 EXCEPT !.state.return_code = ReturnCode(w, Val(w.process)),
                         !.process = None]
    IN  IF IsNone(w.process)
        THEN Release(Finish(w1, i, Result(500, "AttributeError")))
        ELSE Release(Finish(w2, i,
                [Result(500, "HTTPException") EXCEPT
                    !.keys = StartupDetailKeys(r),
                    !.error = Some(message),
                    !.stderr = w2.state.stderr_tail,
                    !.return_code = IF "return_code" \in StartupDetailKeys(r)
                                    THEN w2.state.return_code ELSE None]))

\* a last block that sets `running` whatever the status is
MarkRunningLockedAlways(w, i) ==
    LET w1 == [w EXCEPT !.state.status = "running"]
    IN  Release(Finish(w1, i,
            [Result(200, "") EXCEPT !.snapshot = Some(Snapshot(w1))]))

\* start(), the last block: starting -> running, return self.snapshot()
MarkRunningLocked(w, i) ==
    LET w1 == IF w.state.status = "starting"
              THEN [w EXCEPT !.state.status = "running"] ELSE w
    IN  Release(Finish(w1, i,
            [Result(200, "") EXCEPT !.snapshot = Some(Snapshot(w1))]))

\* ---------------------------------------------------- _wait_for_exit
\* the body under the lock, for the process p the task was made for
WaitForExitLocked(w, p) ==
    LET return_code == ReturnCode(w, p)
        done == [w EXCEPT !.procs[p].waiter = "done"]
    IN  IF w.process # Some(p) THEN Release(done)
        ELSE Release([done EXCEPT
                !.state.return_code = return_code,
                !.state.exited_at = Some("now"),
                !.state.status = IF @ # "error"
                                 THEN (IF Val(return_code) = 0
                                       THEN "exited" ELSE "error")
                                 ELSE @,
                !.process = None])

\* ------------------------------------------------------------- stop()
\* the early return taken for a null handle only (C7 is checked against it)
NothingToStopOnlyNull(w, process_) == IsNone(process_)

\* `if not process or process.returncode is not None: return`
NothingToStop(w, process_) ==
    IsNone(process_) \/ ~IsNone(ReturnCode(w, Val(process_)))

\* a stop() that sends SIGKILL without the request to terminate
StopReadLockedKillsAtOnce(w, j) ==
    LET process_ == w.process
        w1 == Release(w)
    IN  IF NothingToStop(w, process_)
        THEN FinishStop(w1, j, None)
        ELSE [w1 EXCEPT !.stops[j].pc = "wait_kill",
                        !.stops[j].process = process_]

\* stop(): the handle is read under the lock; then either the early
\* return, or process.terminate() and the wait for the exit
StopReadLocked(w, j) ==
    LET process_ == w.process
        w1 == Release(w)
    IN  IF NothingToStop(w, process_)
        THEN FinishStop(w1, j, None)
        ELSE [w1 EXCEPT !.stops[j].pc = "wait_term",
                        !.stops[j].process = process_]

\* a final block that leaves the handle as it is (C8 is checked against it)
StopFinalLockedKeepsHandle(w, j) ==
    LET process_ == w.stops[j].process
    IN  Release(FinishStop([w EXCEPT
            !.state.status = "exited",
            !.state.exited_at = Some("now"),
            !.state.return_code = ReturnCode(w, Val(process_))], j, process_))

\* stop(): the final block under the lock
StopFinalLocked(w, j) ==
    LET process_ == w.stops[j].process
    IN  Release(FinishStop([w EXCEPT
            !.state.status = "exited",
            !.state.exited_at = Some("now"),
            !.state.return_code = ReturnCode(w, Val(process_)),
            !.process = None], j, process_))


\* --------------------------------------------------------- _append_log
\* _append_log with the new line put before the tail
AppendLogNewestFirst(w, line) ==
    [w EXCEPT !.state.stderr_tail = LastN(<<line>> \o @, TailCap)]

\* one line read by _capture_output: appended to the tail of the state
\* object current at that moment, the tail cut to its last TailCap lines
AppendLog(w, line) ==
    [w EXCEPT !.state.stderr_tail = LastN(Append(@, line), TailCap)]

\* _append_log in full: the tail first, then the line appended to the log
\* file; an OSError of the open or of the write is swallowed (ok = FALSE)
\* and the line is missing from the file
AppendLogFile(w, line, ok) ==
    [AppendLog(w, line) EXCEPT
        !.logfile = [lines |-> @.lines + 1, lost |-> @.lost \/ ~ok]]

\* =============================================================== actions
Args(r) == IF r = "node" THEN NodePayloads ELSE WalletArgs

NewStart(arg, cargo) ==
    [pc |-> "call", arg |-> Some(arg), cargo |-> cargo, proc |-> None,
     message |-> None]

\* calls issued so far against role r
Calls(r) == Len(starts[r]) + Len(stops[r])

\* stop() call j has sent SIGTERM (process.terminate) to process p and is
\* waiting for its exit
Terminating(r, j, p) ==
    stops[r][j].pc \in {"wait_term", "wait_kill"} /\ stops[r][j].process = Some(p)

\* stop() call j has sent SIGKILL (process.kill) to process p
Killing(r, j, p) ==
    stops[r][j].pc = "wait_kill" /\ stops[r][j].process = Some(p)

NewStop == [pc |-> "call", process |-> None]

\* A caller invokes start: POST /node/process/start (node_process_start
\* validates, then calls NODE_PROCESS.start) or WALLET_PROCESS.start
StartCall(r, max) ==
    /\ r \in active
    /\ Calls(r) < max
    /\ \E arg \in Args(r), cargo \in Toolchains :
         LET i == Len(starts[r]) + 1
             w == [World(r) EXCEPT !.starts = Append(@, NewStart(arg, cargo))]
         IN  Commit(r,
               IF r = "node" /\ ValidationFails(arg)
               THEN Finish(w, i, Invalid)
               ELSE IF LockFree(w)
               THEN StartLocked(r, Enqueue(w, Task("start", i)), i)
               ELSE [Enqueue(w, Task("start", i)) EXCEPT
                        !.starts[i].pc = "lock_start"])

\* start() is handed the lock it waited for at its entry
StartGranted(r, i) ==
    /\ i \in 1..Len(starts[r])
    /\ starts[r][i].pc = "lock_start"
    /\ HasLock(World(r), Task("start", i))
    /\ Commit(r, StartLocked(r, World(r), i))

\* create_subprocess_exec returns the process, or raises FileNotFoundError
SpawnReturns(r, i) ==
    /\ i \in 1..Len(starts[r])
    /\ starts[r][i].pc = "spawning"
    /\ Commit(r, IF starts[r][i].cargo = "ok" THEN Spawned(r, World(r), i)
                 ELSE SpawnFailed(r, World(r), i))

\* asyncio.sleep(0.4) is over: the check of the handle, then one of the
\* two final blocks
GraceElapsed(r, i) ==
    /\ i \in 1..Len(starts[r])
    /\ starts[r][i].pc = "grace"
    /\ LET w == World(r)
           w1 == Enqueue(w, Task("start", i))
           failed == [w1 EXCEPT !.starts[i].message = Some(StartupMessage(w))]
       IN  Commit(r,
             IF ExitedDuringStartup(w)
             THEN IF LockFree(w) THEN StartupFailedLocked(r, failed, i)
                  ELSE [failed EXCEPT !.starts[i].pc = "lock_failed"]
             ELSE IF LockFree(w) THEN MarkRunningLocked(w1, i)
                  ELSE [w1 EXCEPT !.starts[i].pc = "lock_running"])

StartFailedGranted(r, i) ==
    /\ i \in 1..Len(starts[r])
    /\ starts[r][i].pc = "lock_failed"
    /\ HasLock(World(r), Task("start", i))
    /\ Commit(r, StartupFailedLocked(r, World(r), i))

StartRunningGranted(r, i) ==
    /\ i \in 1..Len(starts[r])
    /\ starts[r][i].pc = "lock_running"
    /\ HasLock(World(r), Task("start", i))
    /\ Commit(r, MarkRunningLocked(World(r), i))

\* The operating system ends process p; its returncode becomes visible
ProcExit(r, p) ==
    /\ p \in 1..Len(procs[r])
    /\ Alive(procs[r][p])
    /\ \E c \in ExitCodes :
         Commit(r, [World(r) EXCEPT !.procs[p].rc = Some(c)])

\* A _capture_output task of the role reads one line from a pipe of its
\* process (the pipes outlive the process while output is buffered)
Output(r) ==
    /\ procs[r] # <<>>
    /\ Len(state[r].stderr_tail) < MaxLines
    /\ Commit(r, AppendLog(World(r), "line"))

\* The same step with the lines told apart: the line is numbered by its
\* arrival, and the write to the log file succeeds or fails
CaptureLine(r) ==
    /\ procs[r] # <<>>
    /\ logfile[r].lines < MaxLogLines
    /\ \E ok \in BOOLEAN :
         Commit(r, AppendLogFile(World(r), logfile[r].lines + 1, ok))

\* _wait_for_exit: process.wait() returned
WaiterWakes(r, p) ==
    /\ p \in 1..Len(procs[r])
    /\ procs[r][p].waiter = "await"
    /\ ~Alive(procs[r][p])
    /\ LET w1 == Enqueue(World(r), Task("wait", p))
       IN  Commit(r, IF LockFree(World(r)) THEN WaitForExitLocked(w1, p)
                     ELSE [w1 EXCEPT !.procs[p].waiter = "lock"])

WaiterGranted(r, p) ==
    /\ p \in 1..Len(procs[r])
    /\ procs[r][p].waiter = "lock"
    /\ HasLock(World(r), Task("wait", p))
    /\ Commit(r, WaitForExitLocked(World(r), p))

\* A caller invokes stop()
StopCall(r, max) ==
    /\ r \in active
    /\ Calls(r) < max
    /\ LET j == Len(stops[r]) + 1
           w == [World(r) EXCEPT !.stops = Append(@, NewStop)]
           w1 == Enqueue(w, Task("stop", j))
       IN  Commit(r, IF LockFree(w) THEN StopReadLocked(w1, j)
                     ELSE [w1 EXCEPT !.stops[j].pc = "lock_read"])

\* _shutdown_cleanup: NODE_PROCESS.stop(), then WALLET_PROCESS.stop(). The
\* stop() of a supervisor that was never started returns at once, so the
\* handler is the stop() call on the role in use, and has finished when
\* that call has; cleanup records which call it is
ShutdownCleanup(r) ==
    /\ r \in active
    /\ IsNone(cleanup)
    /\ LET j == Len(stops[r]) + 1
           w == [World(r) EXCEPT !.stops = Append(@, NewStop),
                                 !.cleanup = Some(j)]
           w1 == Enqueue(w, Task("stop", j))
       IN  Commit(r, IF LockFree(w) THEN StopReadLocked(w1, j)
                     ELSE [w1 EXCEPT !.stops[j].pc = "lock_read"])

StopReadGranted(r, j) ==
    /\ j \in 1..Len(stops[r])
    /\ stops[r][j].pc = "lock_read"
    /\ HasLock(World(r), Task("stop", j))
    /\ Commit(r, StopReadLocked(World(r), j))

\* wait_for(process.wait(), timeout=10.0) timed out: process.kill()
StopTimeout(r, j) ==
    /\ j \in 1..Len(stops[r])
    /\ stops[r][j].pc = "wait_term"
    /\ Alive(procs[r][Val(stops[r][j].process)])
    /\ Commit(r, [World(r) EXCEPT !.stops[j].pc = "wait_kill"])

\* process.wait() returned in stop(): the final block
StopWakes(r, j) ==
    /\ j \in 1..Len(stops[r])
    /\ stops[r][j].pc \in {"wait_term", "wait_kill"}
    /\ ~Alive(procs[r][Val(stops[r][j].process)])
    /\ LET w1 == Enqueue(World(r), Task("stop", j))
       IN  Commit(r, IF LockFree(World(r)) THEN StopFinalLocked(w1, j)
                     ELSE [w1 EXCEPT !.stops[j].pc = "lock_final"])

StopFinalGranted(r, j) ==
    /\ j \in 1..Len(stops[r])
    /\ stops[r][j].pc = "lock_final"
    /\ HasLock(World(r), Task("stop", j))
    /\ Commit(r, StopFinalLocked(World(r), j))

\* ======================================================= action catalog
\* DashboardAction; a command stands for its CommandSpec (argv, cwd)
Action(slug, title, category, commands) ==
    [slug |-> slug, title |-> title, category |-> category,
     commands |-> commands]

\* the list literal of _actions()
ActionList ==
    << Action("dev-setup", "Install toolchains", "Setup & demos",
              <<"./scripts/dev-setup.sh">>),
       Action("quickstart", "Full workstation quickstart", "Setup & demos",
              <<"./scripts/dev-setup.sh", "make check", "make bench",
                "./scripts/wallet-demo.sh">>),
       Action("wallet-demo", "Wallet demo", "Setup & demos",
              <<"./scripts/wallet-demo.sh">>),
       Action("fmt", "Format", "Build & test", <<"cargo fmt">>),
       Action("lint", "Lint", "Build & test", <<"cargo clippy">>),
       Action("test", "Test", "Build & test", <<"cargo test">>),
       Action("check", "Check", "Build & test", <<"make check">>),
       Action("bench-circuits", "Prover benchmark", "Benchmarks",
              <<"cargo run -p circuits-bench">>),
       Action("bench-wallet", "Wallet benchmark", "Benchmarks",
              <<"cargo run -p wallet-bench">>),
       Action("bench-network", "Network benchmark", "Benchmarks",
              <<"go run ./cmd/netbench">>),
       Action("bench-all", "Full benchmark suite", "Benchmarks",
              <<"make bench">>) >>

\* a catalog keyed by the titles of the actions
BuildCatalogByTitle(list) ==
    [j \in 1..Len(list) |-> [key |-> list[j].title, value |-> list[j]]]

\* _actions(): {action.slug: action for action in [...]}.  A dict keeps
\* its keys in the order of their first insertion; a key met again keeps
\* its place and takes the later value
BuildCatalog(list) ==
    LET first == {k \in 1..Len(list) :
                    \A m \in 1..(k - 1) : list[m].slug # list[k].slug}
        pos(j) == CHOOSE k \in first : Cardinality({m \in first : m < k}) = j - 1
        last(slug) == CHOOSE k \in 1..Len(list) :
                        /\ list[k].slug = slug
                        /\ \A m \in (k + 1)..Len(list) : list[m].slug # slug
    IN  [j \in 1..Cardinality(first) |->
            [key |-> list[pos(j)].slug, value |-> list[last(list[pos(j)].slug)]]]

\* the keys of a dict
Keys(d) == {d[k].key : k \in 1..Len(d)}

\* a lookup that falls back on the first entry
GetOrFirst(d, slug) ==
    IF slug \in Keys(d)
    THEN Some(d[CHOOSE k \in 1..Len(d) : d[k].key = slug].value)
    ELSE IF d = <<>> THEN None ELSE Some(d[1].value)

\* dict.get(slug)
Get(d, slug) ==
    IF slug \in Keys(d)
    THEN Some(d[CHOOSE k \in 1..Len(d) : d[k].key = slug].value)
    ELSE None

\* two entries of the list share a slug
HasDuplicateSlugs(list) ==
    \E k, m \in 1..Len(list) : k # m /\ list[k].slug = list[m].slug

\* the lists of actions _actions() is tried on: up to MaxActions actions
\* over two slugs, the actions of one slug told apart by their titles
TrialActions ==
    {Action(slug, title, "Build & test", <<"make check">>) :
        slug \in {"check", "fmt"}, title \in {"one", "two"}}

TrialLists ==
    UNION {[1..n -> TrialActions] : n \in 1..MaxActions}

\* nothing has been built
NotBuilt == [actions |-> <<>>, result |-> None]

\* ------------------------------------------------------------ listings
\* The order of Python's str comparison on the categories and on the slugs
\* of the catalog, least first
CategoryOrder == <<"Benchmarks", "Build & test", "Setup & demos">>

SlugOrder ==
    <<"bench-all", "bench-circuits", "bench-network", "bench-wallet",
      "check", "dev-setup", "fmt", "lint", "no-such-action", "quickstart",
      "test", "wallet-demo">>

\* the place of string x in the order
Rank(order, x) == CHOOSE k \in 1..Len(order) : order[k] = x

\* the values of a dict, in the order of its keys: d.values()
Values(d) == [k \in 1..Len(d) |-> d[k].value]

\* list_actions: [asdict(action) for action in ACTIONS.values()]
ListActionsBody(d) == Values(d)

\* action a is printed before action b by print_action_table: the
\* categories go in sorted order and the actions of one by sorted slug
PrintedBefore(a, b) ==
    \/ Rank(CategoryOrder, a.category) < Rank(CategoryOrder, b.category)
    \/ /\ a.category = b.category
       /\ Rank(SlugOrder, a.slug) < Rank(SlugOrder, b.slug)

\* print_action_table: the actions in the order they are printed
PrintActionTable(d) ==
    LET all == {d[k].value : k \in 1..Len(d)}
    IN  [j \in 1..Cardinality(all) |->
            CHOOSE a \in all :
                Cardinality({b \in all : PrintedBefore(b, a)}) = j - 1]

\* export_actions: [actions[key] for key in sorted(actions)]
ExportActions(d) ==
    [j \in 1..Len(d) |->
        Val(Get(d, CHOOSE key \in Keys(d) :
                    Cardinality({other \in Keys(d) :
                        Rank(SlugOrder, other) < Rank(SlugOrder, key)}) = j - 1))]

\* the slugs a caller asks for: those of the catalog and one that is not
UnknownSlug == "no-such-action"

RequestSlugs == {ActionList[k].slug : k \in 1..Len(ActionList)} \cup {UnknownSlug}

\* ==================================================== action stream
\* one event of the stream (_serialize_event), with the fields that tell
\* events apart; absent fields are None / ""
Event(type, slug, command_index, status, exit_code, command_count) ==
    [type |-> type, slug |-> slug, command_index |-> command_index,
     status |-> status, exit_code |-> exit_code,
     command_count |-> command_count]

ActionStartEvent(action) ==
    Event("action_start", action.slug, None, "", None, Some(Len(action.commands)))

CommandStartEvent(action, index) ==
    Event("command_start", action.slug, Some(index), "", None, None)

\* a line of output labelled with the index of the command to come
CommandOutputEventNextIndex(action, index) ==
    Event("command_output", action.slug, Some(index + 1), "", None, None)

CommandOutputEvent(action, index) ==
    Event("command_output", action.slug, Some(index), "", None, None)

\* a command_end that reports success whatever the exit code
CommandEndEventAlwaysSuccess(action, index, exit_code) ==
    Event("command_end", action.slug, Some(index), "success", Some(exit_code), None)

\* status = "success" if exit_code == 0 else "error"
CommandEndEvent(action, index, exit_code) ==
    Event("command_end", action.slug, Some(index),
          IF exit_code = 0 THEN "success" ELSE "error", Some(exit_code), None)

ActionCompleteEvent(action) ==
    Event("action_complete", action.slug, None, "", None, None)

ActionErrorEvent(slug, index, exit_code) ==
    Event("action_error", slug, Some(index), "", Some(exit_code), None)

\* subprocess.Popen: the exit code, the lines written to the pipe and the
\* lines readline has returned
NewCommandProcess == [rc |-> None, written |-> 0, read |-> 0]

\* The generator _generate_stream(action) made by run_action, with the
\* generators it delegates to.  pc is the yield it is suspended at (or
\* "reading": inside a next() call, blocked on the pipe); index is the
\* 0-based command_index; exits are the exit codes process.wait() returned;
\* pulling says that a next() call of the response is under way
NewRun(action) ==
    [action |-> action, pc |-> "created", index |-> 0, events |-> <<>>,
     processes |-> <<>>, exits |-> <<>>, pulling |-> FALSE,
     consumer |-> "reading"]

\* `yield _serialize_event(...)`: the next() call returns the event
Emit(g, pc, event) ==
    [g EXCEPT !.pc = pc, !.events = Append(@, event), !.pulling = FALSE]

\* a loop that stops one command short
EnterCommandSkipsLast(g, index) ==
    IF index + 1 < Len(g.action.commands)
    THEN Emit([g EXCEPT !.index = index], "command_start",
              CommandStartEvent(g.action, index))
    ELSE Emit(g, "action_complete", ActionCompleteEvent(g.action))

\* _action_stream: the loop `for index, command in enumerate(...)` reaches
\* index: _stream_command_output runs to its first yield, or, the commands
\* used up, action_complete is yielded
EnterCommand(g, index) ==
    IF index < Len(g.action.commands)
    THEN Emit([g EXCEPT !.index = index], "command_start",
              CommandStartEvent(g.action, index))
    ELSE Emit(g, "action_complete", ActionCompleteEvent(g.action))

\* a generator that goes on to the next command whatever the exit code
AfterCommandEndIgnoresExit(g) == EnterCommand(g, g.index + 1)

\* a generator that reports a failure only of the last command
AfterCommandEndErrorOnlyAtLast(g) ==
    LET exit_code == Last(g.exits)
    IN  IF exit_code # 0 /\ g.index + 1 = Len(g.action.commands)
        THEN Emit(g, "action_error",
                  ActionErrorEvent(g.action.slug, g.index, exit_code))
        ELSE EnterCommand(g, g.index + 1)

\* the generator is resumed at the yield of command_end: a non-zero exit
\* code raises CommandFailure, which _generate_stream turns into
\* action_error; otherwise the loop goes on
AfterCommandEnd(g) ==
    LET exit_code == Last(g.exits)
    IN  IF exit_code # 0
        THEN Emit(g, "action_error",
                  ActionErrorEvent(g.action.slug, g.index, exit_code))
        ELSE EnterCommand(g, g.index + 1)

\* next() on the generator suspended anywhere but at command_start
Resume(g) ==
    CASE g.pc = "created" ->
            Emit(g, "action_start", ActionStartEvent(g.action))
      [] g.pc = "action_start" -> EnterCommand(g, 0)
      [] g.pc = "command_output" -> [g EXCEPT !.pc = "reading", !.pulling = TRUE]
      [] g.pc = "command_end" -> AfterCommandEnd(g)
      [] g.pc \in {"action_complete", "action_error"} ->
            [g EXCEPT !.pc = "done", !.pulling = FALSE]

\* next() at command_start: subprocess.Popen returns and the generator
\* blocks in readline
PopenReturns(g) ==
    [g EXCEPT !.processes = Append(@, NewCommandProcess),
              !.pc = "reading", !.pulling = TRUE]

\* next() at command_start: subprocess.Popen raises (FileNotFoundError,
\* PermissionError); nothing catches it and the generator is over
PopenRaises(g) == [g EXCEPT !.pc = "raised", !.pulling = FALSE]

\* the process of the command in progress
CurrentProcess(g) == g.processes[Len(g.processes)]

\* readline has a line to return
LineReady(g) == CurrentProcess(g).read < CurrentProcess(g).written

\* readline returns "": the process has ended (its end of the pipe is
\* closed) and every line it wrote has been read
AtEof(g) ==
    ~IsNone(CurrentProcess(g).rc)
        /\ CurrentProcess(g).read = CurrentProcess(g).written

\* one turn of `for line in iter(process.stdout.readline, "")`
ReadLine(g) ==
    Emit([g EXCEPT !.processes[Len(g.processes)].read = @ + 1],
         "command_output", CommandOutputEvent(g.action, g.index))

\* the loop is over: exit_code = process.wait(), command_end is yielded
WaitAndEnd(g) ==
    LET exit_code == Val(CurrentProcess(g).rc)
    IN  Emit([g EXCEPT !.exits = Append(@, exit_code)], "command_end",
             CommandEndEvent(g.action, g.index, exit_code))

\* the generator has nothing more to yield
RunOver(g) == g.pc \in {"done", "raised"}

\* ------------------------------------------------------------ actions
\* no run is under way that a response still reads
NoRunInProgress ==
    IF IsNone(run) THEN TRUE
    ELSE RunOver(Val(run)) \/ Val(run).consumer = "gone"

\* the steps of the engine change nothing of the supervisors or the relay
EngineOnly ==
    /\ yielded' = None
    /\ UNCHANGED <<active, supervisorVars, relay, ws>>

\* POST /run/{slug}: run_action
RunAction(slug) ==
    /\ "service" \in active
    /\ served < MaxRuns
    /\ NoRunInProgress
    /\ served' = served + 1
    /\ LET action == Get(CATALOG, slug)
       IN  IF IsNone(action)
           THEN /\ http' = Some([op |-> "run", slug |-> slug, code |-> 404,
                                 body |-> <<>>])
                /\ UNCHANGED run
           ELSE /\ http' = Some([op |-> "run", slug |-> slug, code |-> 200,
                                 body |-> <<>>])
                /\ run' = Some(NewRun(Val(action)))
    /\ UNCHANGED <<CATALOG, build, cli, stdout>>
    /\ EngineOnly

\* GET /actions: list_actions
ListActions ==
    /\ "service" \in active
    /\ served < MaxRuns
    /\ served' = served + 1
    /\ http' = Some([op |-> "list", slug |-> "", code |-> 200,
                     body |-> ListActionsBody(CATALOG)])
    /\ UNCHANGED <<CATALOG, build, run, cli, stdout>>
    /\ EngineOnly

\* a step of the run's generator, from g to h
RunStep(h) ==
    /\ run' = Some(h)
    /\ http' = None
    /\ UNCHANGED <<CATALOG, build, cli, served, stdout>>
    /\ EngineOnly

\* the response asks the generator for its next event
Pull ==
    /\ ~IsNone(run)
    /\ Val(run).consumer = "reading"
    /\ ~Val(run).pulling
    /\ Val(run).pc \notin {"done", "raised", "command_start", "reading"}
    /\ RunStep(Resume(Val(run)))

\* the same at command_start: the command's process is spawned, or not
PullSpawns ==
    /\ ~IsNone(run)
    /\ Val(run).consumer = "reading"
    /\ ~Val(run).pulling
    /\ Val(run).pc = "command_start"
    /\ \E ok \in BOOLEAN :
         RunStep(IF ok THEN PopenReturns(Val(run)) ELSE PopenRaises(Val(run)))

\* readline returns a line
ReadsLine ==
    /\ ~IsNone(run)
    /\ Val(run).pc = "reading"
    /\ LineReady(Val(run))
    /\ RunStep(ReadLine(Val(run)))

\* readline returns "" and process.wait() the exit code
ReadsEof ==
    /\ ~IsNone(run)
    /\ Val(run).pc = "reading"
    /\ AtEof(Val(run))
    /\ RunStep(WaitAndEnd(Val(run)))

\* the command's process writes a line
CommandWrites ==
    /\ ~IsNone(run)
    /\ Val(run).processes # <<>>
    /\ IsNone(CurrentProcess(Val(run)).rc)
    /\ CurrentProcess(Val(run)).written < MaxOut
    /\ RunStep([Val(run) EXCEPT !.processes[Len(Val(run).processes)].written = @ + 1])

\* the command's process ends
CommandExits ==
    /\ ~IsNone(run)
    /\ Val(run).processes # <<>>
    /\ IsNone(CurrentProcess(Val(run)).rc)
    /\ \E c \in ExitCodes :
         RunStep([Val(run) EXCEPT !.processes[Len(Val(run).processes)].rc = Some(c)])

\* the caller goes away: the response stops asking for events; a next()
\* call under way runs on to its yield
Disconnect ==
    /\ ~IsNone(run)
    /\ Val(run).consumer = "reading"
    /\ ~RunOver(Val(run))
    /\ RunStep([Val(run) EXCEPT !.consumer = "gone"])

\* ---------------------------------------------------- dashboard.py
\* main() with --run SLUG: the catalog is built, the slug looked up and
\* run_action started; started are the commands handed to subprocess.run
CliRun(slug) ==
    /\ "cli" \in active
    /\ served < MaxRuns
    /\ IF IsNone(cli) THEN TRUE ELSE Val(cli).pc = "exited"
    /\ served' = served + 1
    /\ LET action == Get(BuildCatalog(ActionList), slug)
       IN  cli' = Some(
             IF IsNone(action)
             THEN [slug |-> slug, pc |-> "exited", index |-> 0,
                   started |-> <<>>, status |-> Some(1), commands |-> <<>>,
                   raised |-> "", exits |-> <<>>]
             ELSE IF Val(action).commands = <<>>
             THEN [slug |-> slug, pc |-> "exited", index |-> 0,
                   started |-> <<>>, status |-> Some(0), commands |-> <<>>,
                   raised |-> "", exits |-> <<>>]
             ELSE [slug |-> slug, pc |-> "running", index |-> 0,
                   started |-> <<0>>, status |-> None,
                   commands |-> Val(action).commands, raised |-> "",
                   exits |-> <<>>])
    /\ http' = None
    /\ UNCHANGED <<CATALOG, build, run, stdout>>
    /\ EngineOnly

\* main() with --list: the catalog is built and print_action_table run
CliList ==
    /\ "cli" \in active
    /\ served < MaxRuns
    /\ IF IsNone(cli) THEN TRUE ELSE Val(cli).pc = "exited"
    /\ served' = served + 1
    /\ stdout' = Some([program |-> "dashboard.py",
                       actions |-> PrintActionTable(BuildCatalog(ActionList))])
    /\ http' = None
    /\ UNCHANGED <<CATALOG, build, run, cli>>
    /\ EngineOnly

\* dashboard_actions_export.py, main(): the catalog is built and exported
CliExport ==
    /\ "cli" \in active
    /\ served < MaxRuns
    /\ IF IsNone(cli) THEN TRUE ELSE Val(cli).pc = "exited"
    /\ served' = served + 1
    /\ stdout' = Some([program |-> "dashboard_actions_export.py",
                       actions |-> ExportActions(BuildCatalog(ActionList))])
    /\ http' = None
    /\ UNCHANGED <<CATALOG, build, run, cli>>
    /\ EngineOnly

\* _run_command: subprocess.run(check=True) returns, or raises
\* CalledProcessError for a non-zero exit code; run_action goes on to the
\* next command, returns True after the last, False at the first failure,
\* and main returns 0 or 1
CliCommandEnds ==
    /\ ~IsNone(cli)
    /\ Val(cli).pc = "running"
    /\ \E c \in ExitCodes :
         LET c_ == Val(cli)
             next == c_.index + 1
         IN  cli' = Some(
               IF c # 0
               THEN [c_ EXCEPT !.pc = "exited", !.status = Some(1),
                               !.exits = Append(@, c)]
               ELSE IF next < Len(c_.commands)
               THEN [c_ EXCEPT !.index = next, !.started = Append(@, next),
                               !.exits = Append(@, c)]
               ELSE [c_ EXCEPT !.pc = "exited", !.status = Some(0),
                               !.exits = Append(@, c)])
    /\ http' = None
    /\ UNCHANGED <<CATALOG, build, run, served, stdout>>
    /\ EngineOnly

\* subprocess.run raises FileNotFoundError: nothing catches it and the
\* interpreter ends with a traceback and status 1
CliSpawnRaises ==
    /\ ~IsNone(cli)
    /\ Val(cli).pc = "running"
    /\ cli' = Some([Val(cli) EXCEPT !.pc = "exited", !.status = Some(1),
                                    !.raised = "FileNotFoundError"])
    /\ http' = None
    /\ UNCHANGED <<CATALOG, build, run, served, stdout>>
    /\ EngineOnly

\* ------------------------------------------------- the catalog, built
\* _actions() run on the list in build.actions
BuildActions ==
    /\ "build" \in active
    /\ IsNone(build.result)
    /\ build' = [build EXCEPT
                    !.result = Some([raised |-> "",
                                     catalog |-> BuildCatalog(build.actions)])]
    /\ http' = None
    /\ UNCHANGED <<CATALOG, run, cli, served, stdout>>
    /\ EngineOnly

\* a lookup in the dict that was built
LookupBuilt(slug) ==
    /\ "build" \in active
    /\ ~IsNone(build.result)
    /\ served < MaxRuns
    /\ served' = served + 1
    /\ http' = Some([op |-> "get", slug |-> slug,
                     code |-> IF IsNone(Get(Val(build.result).catalog, slug))
                              THEN 404 ELSE 200,
                     body |-> <<>>])
    /\ UNCHANGED <<CATALOG, build, run, cli, stdout>>
    /\ EngineOnly

\* ================================================ node event relay
\* _build_ws_url: the scheme becomes wss for https and ws otherwise, the
\* path /ws
BuildWsUrl(url) ==
    <<IF url[1] = "https" THEN "wss" ELSE "ws", url[2], url[3], "/ws">>

\* the module global NODE_WS_URL, which _set_node_rpc keeps in step with
\* NODE_RPC_URL
NODE_WS_URL ==
    IF IsNone(NODE_RPC) THEN None ELSE Some(BuildWsUrl(Val(NODE_RPC).url))

\* what the relay yields: a message of the node, as received, or a
\* warning it makes itself
Payload(kind, text, conn, seq) ==
    [kind |-> kind, text |-> text, conn |-> conn, seq |-> seq]

\* the seq-th message the node sends on connection conn
NodeMessage(conn, seq) == Payload("message", "event", conn, seq)

NotConfiguredWarning ==
    Payload("warning", "Node RPC URL is not configured", 0, 0)

DisconnectedWarning ==
    Payload("warning", "Event stream disconnected", 0, 0)

\* no subscription: nobody has asked for /node/events/stream
NoRelay ==
    [pc |-> "none", last |-> "", forwarded |-> <<>>]

\* _node_event_messages() as node_events_stream creates it: pc is the
\* place of the generator ("top" of the loop, "sleep", "connecting",
\* "open": in `async for message in ws`, "cancelled"), last the kind of
\* the payload yielded last, forwarded the node's messages yielded so far
NewRelay ==
    [pc |-> "top", last |-> "", forwarded |-> <<>>]

\* The relay's connection to the node's event channel: status is "none"
\* before the first websockets.connect call, then "connecting", "open",
\* "closed" (ended in order) or "failed" (connect or the iteration raised);
\* conn counts the connections made, sent the messages sent on the last,
\* inbox holds those not yet handed to the relay, delivered those handed
\* over since the subscription began
NoChannel ==
    [status |-> "none", conn |-> 0, sent |-> 0, inbox |-> <<>>,
     delivered |-> <<>>]

\* the relay yields payload p and goes on to pc
Yield(g, pc, p) ==
    [g EXCEPT !.pc = pc,
              !.last = IF p.kind = "warning" THEN p.text ELSE "message",
              !.forwarded = IF p.kind = "message" THEN Append(@, p) ELSE @]

\* a loop that calls websockets.connect whether there is a URL or not
IterateWithoutUrl(g) == [g EXCEPT !.pc = "connecting"]

\* the head of the loop: without a URL the warning is yielded and the
\* sleep begun; with one, websockets.connect is called
Iterate(g) ==
    IF IsNone(NODE_WS_URL)
    THEN Yield(g, "sleep", NotConfiguredWarning)
    ELSE [g EXCEPT !.pc = "connecting"]

\* a relay that returns after the warning
DisconnectedGivesUp(g) == Yield(g, "returned", DisconnectedWarning)

\* `except Exception`: the warning is yielded and the sleep begun
Disconnected(g) == Yield(g, "sleep", DisconnectedWarning)

\* a relay that yields each message twice
ForwardTwice(g, message) == Yield(Yield(g, "open", message), "open", message)

\* `async for message in ws: yield message`, for the message the
\* connection hands over
Forward(g, message) == Yield(g, "open", message)

\* --------------------------------------------------------- actions
\* the steps of the relay change nothing of the supervisors or the engine
RelayOnly ==
    /\ http' = None
    /\ returned' = [r \in Roles |-> None]
    /\ UNCHANGED <<active, process, state, lock, procs, starts, stops,
                   NODE_LIFECYCLE_STATE, NODE_RPC, logfile, cleanup,
                   engineVars>>

RelayIterates ==
    /\ "relay" \in active
    /\ relay.pc = "top"
    /\ relay' = Iterate(relay)
    /\ yielded' = IF IsNone(NODE_WS_URL) THEN Some(NotConfiguredWarning) ELSE None
    /\ ws' = IF IsNone(NODE_WS_URL) THEN ws ELSE [ws EXCEPT !.status = "connecting"]
    /\ RelayOnly

\* asyncio.sleep(STREAM_RECONNECT_SECONDS) is over: `continue`, or the end
\* of the loop body
BackoffElapsed ==
    /\ relay.pc = "sleep"
    /\ relay' = [relay EXCEPT !.pc = "top"]
    /\ yielded' = None
    /\ UNCHANGED ws
    /\ RelayOnly

\* websockets.connect returns a connection (the node accepts MaxConns of
\* them), or raises
ConnectReturns ==
    /\ relay.pc = "connecting"
    /\ \E ok \in BOOLEAN :
         IF ok /\ ws.conn < MaxConns
         THEN /\ relay' = [relay EXCEPT !.pc = "open"]
              /\ ws' = [ws EXCEPT !.status = "open", !.conn = @ + 1,
                                  !.sent = 0, !.inbox = <<>>]
              /\ yielded' = None
         ELSE /\ ~ok
              /\ relay' = Disconnected(relay)
              /\ yielded' = Some(DisconnectedWarning)
              /\ ws' = [ws EXCEPT !.status = "failed"]
    /\ RelayOnly

\* the node sends a message on the open connection
NodeSends ==
    /\ ws.status = "open"
    /\ ws.sent < MaxMessages
    /\ ws' = [ws EXCEPT !.sent = @ + 1,
                        !.inbox = Append(@, NodeMessage(ws.conn, ws.sent + 1))]
    /\ yielded' = None
    /\ UNCHANGED relay
    /\ RelayOnly

\* the connection hands the relay its next message, which is yielded
RelayForwards ==
    /\ relay.pc = "open"
    /\ ws.inbox # <<>>
    /\ relay' = Forward(relay, Head(ws.inbox))
    /\ ws' = [ws EXCEPT !.inbox = Tail(@), !.delivered = Append(@, Head(ws.inbox))]
    /\ yielded' = Some(Head(ws.inbox))
    /\ RelayOnly

\* the connection fails: the iteration raises once the messages received
\* before are handed over
ConnectionFails ==
    /\ relay.pc = "open"
    /\ ws.inbox = <<>>
    /\ relay' = Disconnected(relay)
    /\ ws' = [ws EXCEPT !.status = "failed"]
    /\ yielded' = Some(DisconnectedWarning)
    /\ RelayOnly

\* the node closes the connection in order: the iteration ends, the
\* `async with` block is left and the loop starts over
ConnectionCloses ==
    /\ relay.pc = "open"
    /\ ws.inbox = <<>>
    /\ relay' = [relay EXCEPT !.pc = "top"]
    /\ ws' = [ws EXCEPT !.status = "closed"]
    /\ yielded' = None
    /\ RelayOnly

\* the subscriber goes away: the response cancels the generator, which
\* leaves the `async with` block if it is in it
Unsubscribe ==
    /\ relay.pc \in {"top", "sleep", "connecting", "open"}
    /\ relay' = [relay EXCEPT !.pc = "cancelled"]
    /\ ws' = [ws EXCEPT !.status = IF @ \in {"connecting", "open"} THEN "closed" ELSE @,
                        !.inbox = <<>>]
    /\ yielded' = None
    /\ RelayOnly

\* ========================================================= specification
\* the supervisors as the module creates them
SupervisorsIdle ==
    /\ process = [r \in Roles |-> None]
    /\ state = [r \in Roles |-> InitState]
    /\ lock = [r \in Roles |-> <<>>]
    /\ procs = [r \in Roles |-> <<>>]
    /\ starts = [r \in Roles |-> <<>>]
    /\ stops = [r \in Roles |-> <<>>]
    /\ returned = [r \in Roles |-> None]
    /\ NODE_LIFECYCLE_STATE = InitLifecycle
    /\ NODE_RPC = None
    /\ logfile = [r \in Roles |-> [lines |-> 0, lost |-> FALSE]]
    /\ cleanup = None

\* ACTIONS = _actions(); no request was served, no command line run
EngineIdle ==
    /\ CATALOG = BuildCatalog(ActionList)
    /\ run = None
    /\ http = None
    /\ cli = None
    /\ stdout = None
    /\ served = 0

Init ==
    /\ active \in {{"node"}, {"wallet"}}
    /\ SupervisorsIdle
    /\ EngineIdle
    /\ build = NotBuilt
    /\ relay = NoRelay
    /\ ws = NoChannel
    /\ yielded = None

\* the calls and the processes a step can belong to
CallIds == 1..MaxRaceCalls

\* a step of a start() call of role r that is under way
StartStep(r) ==
    \E i \in CallIds :
        \/ StartGranted(r, i)
        \/ SpawnReturns(r, i)
        \/ GraceElapsed(r, i)
        \/ StartFailedGranted(r, i)
        \/ StartRunningGranted(r, i)

\* a step of a stop() call of role r that is under way
StopStep(r) ==
    \E j \in CallIds :
        \/ StopReadGranted(r, j)
        \/ StopTimeout(r, j)
        \/ StopWakes(r, j)
        \/ StopFinalGranted(r, j)

\* the end of a process of role r, and the steps of its _wait_for_exit task
ProcStep(r) ==
    \E p \in CallIds :
        \/ ProcExit(r, p)
        \/ WaiterWakes(r, p)
        \/ WaiterGranted(r, p)

Next ==
    \E r \in Roles :
        \/ StartCall(r, MaxCalls)
        \/ StopCall(r, MaxCalls)
        \/ StartStep(r)
        \/ StopStep(r)
        \/ ProcStep(r)
        \/ Output(r)

Spec == Init /\ [][Next]_vars

\* One more call, against supervisors whose processes write nothing: the
\* races between start() calls, stop() and the exit waiters
NextRace ==
    \E r \in Roles :
        \/ StartCall(r, MaxRaceCalls)
        \/ StopCall(r, MaxRaceCalls)
        \/ StartStep(r)
        \/ StopStep(r)
        \/ ProcStep(r)

SpecRace == Init /\ [][NextRace]_vars


\* --------------------------------------------------------- scheduling
\* process.kill() was sent to process p by a stop() call: SIGKILL ends it
KillEnds(r, p) ==
    /\ \E j \in 1..Len(stops[r]) : Killing(r, j, p)
    /\ ProcExit(r, p)

\* the steps of the _wait_for_exit tasks of role r
WaiterStep(r) ==
    \E p \in CallIds : WaiterWakes(r, p) \/ WaiterGranted(r, p)

\* The event loop runs every task that is ready (a call handed the lock, a
\* spawn that returns, a sleep or a wait_for timeout that is over, a task
\* whose process.wait() has returned), and a process sent SIGKILL ends.
\* Nothing makes a process end of itself or a caller call.
Fairness ==
    \A r \in Roles :
        /\ WF_vars(StartStep(r))
        /\ WF_vars(StopStep(r))
        /\ WF_vars(WaiterStep(r))
        /\ WF_vars(\E p \in CallIds : KillEnds(r, p))

FairSpec == Init /\ [][Next]_vars /\ Fairness

\* ------------------------------------------- the action engine alone
\* the service with its catalog, one command line of dashboard.py, or
\* _actions() run on a list of actions
InitActions ==
    /\ \/ active \in {{"service"}, {"cli"}} /\ build = NotBuilt
       \/ /\ active = {"build"}
          /\ build \in {[actions |-> list, result |-> None] : list \in TrialLists}
    /\ SupervisorsIdle
    /\ EngineIdle
    /\ relay = NoRelay
    /\ ws = NoChannel
    /\ yielded = None

\* a request or a command line that names a slug
SlugStep ==
    \E slug \in RequestSlugs :
        \/ RunAction(slug)
        \/ CliRun(slug)
        \/ LookupBuilt(slug)

\* a step of the generator of the run under way, or of its command
GeneratorStep ==
    \/ Pull
    \/ PullSpawns
    \/ ReadsLine
    \/ ReadsEof

NextActions ==
    \/ SlugStep
    \/ ListActions
    \/ CliList
    \/ CliExport
    \/ GeneratorStep
    \/ CommandWrites
    \/ CommandExits
    \/ Disconnect
    \/ CliCommandEnds
    \/ CliSpawnRaises
    \/ BuildActions

SpecActions == InitActions /\ [][NextActions]_vars

\* --------------------------- the command line beside the service
\* one request to run an action, its stream read to the end, and one
\* `dashboard.py --run`, each with whatever exit codes its commands have
InitBoth ==
    /\ active = {"service", "cli"}
    /\ build = NotBuilt
    /\ SupervisorsIdle
    /\ EngineIdle
    /\ relay = NoRelay
    /\ ws = NoChannel
    /\ yielded = None

NextBoth ==
    \/ \E slug \in RequestSlugs : RunAction(slug) \/ CliRun(slug)
    \/ GeneratorStep
    \/ CommandWrites
    \/ CommandExits
    \/ CliCommandEnds
    \/ CliSpawnRaises

SpecBoth == InitBoth /\ [][NextBoth]_vars

\* --------------------------- the relay beside the node's supervisor
\* a subscription to /node/events/stream, opened before any node start
InitRelay ==
    /\ active = {"node", "relay"}
    /\ SupervisorsIdle
    /\ EngineIdle
    /\ build = NotBuilt
    /\ relay = NewRelay
    /\ ws = NoChannel
    /\ yielded = None

\* the steps the relay takes of itself
RelayStep ==
    \/ RelayIterates
    \/ BackoffElapsed
    \/ ConnectReturns
    \/ RelayForwards

\* the steps of the node's end of the connection and of the subscriber
ChannelStep ==
    \/ NodeSends
    \/ ConnectionFails
    \/ ConnectionCloses
    \/ Unsubscribe

\* the steps of a start() call and of its process that need not wait for
\* the lock: the calls made beside a subscription find the lock free
UncontendedStep(r) ==
    \E i \in CallIds :
        \/ SpawnReturns(r, i)
        \/ GraceElapsed(r, i)
        \/ ProcExit(r, i)
        \/ WaiterWakes(r, i)

NextRelay ==
    \/ \E r \in Roles :
          \/ StartCall(r, MaxRelayStarts)
          \/ UncontendedStep(r)
    \/ RelayStep
    \/ ChannelStep

SpecRelay == InitRelay /\ [][NextRelay]_vars

\* The event loop runs the relay whenever it is ready: a sleep that is
\* over, a connect call that returns or raises, a message received.
\* Nothing makes the node send, fail or close, the subscriber leave, or a
\* caller start a node.
FairRelay == InitRelay /\ [][NextRelay]_vars /\ WF_vars(RelayStep)

\* ---------------------------------------------- the lifecycle route
\* POST /node/lifecycle, node_lifecycle: the payload is validated, and a
\* valid one recorded in NODE_LIFECYCLE_STATE
NodeLifecycle(payload) ==
    /\ "lifecycle" \in active
    /\ IF ValidationFails(payload)
       THEN /\ http' = Some([op |-> "lifecycle", slug |-> "", code |-> 422,
                             body |-> <<>>, payload |-> payload])
            /\ UNCHANGED NODE_LIFECYCLE_STATE
       ELSE /\ http' = Some([op |-> "lifecycle", slug |-> "", code |-> 200,
                             body |-> <<>>, payload |-> payload])
            /\ NODE_LIFECYCLE_STATE' = RecordLifecycle(payload)
    /\ yielded' = None
    /\ returned' = [r \in Roles |-> None]
    /\ UNCHANGED <<active, process, state, lock, procs, starts, stops,
                   NODE_RPC, logfile, cleanup, CATALOG, build, run, cli,
                   served, stdout, relay, ws>>

InitLifecycleRoute ==
    /\ active = {"lifecycle"}
    /\ SupervisorsIdle
    /\ EngineIdle
    /\ build = NotBuilt
    /\ relay = NoRelay
    /\ ws = NoChannel
    /\ yielded = None

NextLifecycle == \E payload \in LifecyclePayloads : NodeLifecycle(payload)

SpecLifecycle == InitLifecycleRoute /\ [][NextLifecycle]_vars

\* ------------------------------------------------- the log tail alone
\* A supervisor that is started, and started again when its process has
\* ended: the lines are few while a start() call is under way, and more
\* than the tail holds while none is
NextLog ==
    \E r \in Roles :
        \/ StartCall(r, MaxLogStarts)
        \/ StartStep(r)
        \/ ProcStep(r)
        \/ /\ \/ logfile[r].lines < MaxLines
              \/ \A i \in 1..Len(starts[r]) : starts[r][i].pc = "done"
           /\ CaptureLine(r)

SpecLog == Init /\ [][NextLog]_vars

\* ------------------------------------------------------ host shutdown
\* start() calls, of the autostart task or of clients, until the shutdown
\* handler runs; from then on only the calls under way take steps
NextShutdown ==
    \E r \in Roles :
        \/ IsNone(cleanup) /\ StartCall(r, MaxCalls)
        \/ ShutdownCleanup(r)
        \/ StartStep(r)
        \/ StopStep(r)
        \/ ProcStep(r)

SpecShutdown == Init /\ [][NextShutdown]_vars

\* ================================================================ claims
\* the processes of role r that have not ended
Live(r) == {p \in 1..Len(procs[r]) : Alive(procs[r][p])}

\* the call role r's last step ended is a start() / a stop()
Returned(r, call) == ~IsNone(returned[r]) /\ Val(returned[r]).call = call

\* the handle of role r points at no process that is alive
NoLiveHandle(r) ==
    IsNone(process[r]) \/ ~Alive(procs[r][Val(process[r])])

\* C1: for each role, in every reachable state, at most one process spawned
\* by that role's supervisor is alive.
C1_SingleInstance == \A r \in Roles : Cardinality(Live(r)) <= 1

\* C2: a start() that runs while a process spawned earlier by the same
\* supervisor is alive, no stop() having been called, is rejected with the
\* conflict: it never gets past the check to spawn a process.
C2_SecondStartRejected ==
    \A r \in Roles : \A i \in 1..Len(starts[r]) :
        (starts[r][i].pc = "spawning" /\ stops[r] = <<>>) => Live(r) = {}

\* C3: from the moment a stop() has read the handle of a live process until
\* it has recorded `exited` and cleared the handle, no start() on the same
\* supervisor spawns a process: the process it read is the last one spawned.
C3_StopExcludesStart ==
    \A r \in Roles : \A j \in 1..Len(stops[r]) :
        stops[r][j].pc \in {"wait_term", "wait_kill", "lock_final"}
            => Len(procs[r]) = Val(stops[r][j].process)

\* start() call i of role r is in its grace sleep and the process it
\* spawned has ended
ExitedInGrace(r, i) ==
    starts[r][i].pc = "grace" /\ ~Alive(procs[r][Val(starts[r][i].proc)])

\* C4: when a start() whose process ended before the grace interval was
\* over returns or raises, the supervisor's status is `error` and its
\* return_code is not null, whatever the exit code and whether or not the
\* exit waiter has run before.
C4_EarlyExitIsError ==
    [][\A r \in Roles : \A i \in 1..Len(starts[r]) :
         ((ExitedInGrace(r, i) \/ starts[r][i].pc = "lock_failed")
             /\ starts'[r][i].pc = "done")
         => (state'[r].status = "error" /\ ~IsNone(state'[r].return_code))]_vars

\* C5: a start() whose process has ended when the grace interval is over
\* goes on to raise HTTP 500 with a detail that carries the message, the log
\* tail, the log path and the exit code; it never returns a snapshot.
C5_EarlyExitRaises ==
    [][\A r \in Roles : \A i \in 1..Len(starts[r]) :
         (\/ ExitedInGrace(r, i) /\ starts'[r][i].pc \notin {"grace", "lock_failed"}
          \/ starts[r][i].pc = "lock_failed" /\ starts'[r][i].pc # "lock_failed")
         => /\ starts'[r][i].pc = "done"
            /\ ~IsNone(returned'[r])
            /\ LET res == Val(returned'[r]).res
               IN  /\ res.code = 500
                   /\ res.raised = "HTTPException"
                   /\ {"error", "stderr", "log_path", "return_code"} \subseteq res.keys
                   /\ ~IsNone(res.return_code)]_vars

\* C6: a start() on a host where cargo is neither on the search path nor at
\* the fallback location never spawns a process (it is never past the search
\* and no process is its own), and when it ends, other than by the conflict
\* or the validation error, it raises HTTP 500 and leaves status `error`
\* with the "cargo not found" message in last_error.
C6_UnresolvedExecutable ==
    \A r \in Roles :
        /\ \A i \in 1..Len(starts[r]) :
             starts[r][i].cargo = "missing"
                => /\ starts[r][i].pc = "lock_start"
                   /\ IsNone(starts[r][i].proc)
                   /\ \A p \in 1..Len(procs[r]) : procs[r][p].by # i
        /\ (Returned(r, "start") /\ Val(returned[r]).cargo = "missing"
                /\ Val(returned[r]).res.code \notin {409, 422})
             => /\ Val(returned[r]).res.code = 500
                /\ Val(returned[r]).res.raised = "HTTPException"
                /\ IsNone(Val(returned[r]).proc)
                /\ state[r].status = "error"
                /\ state[r].last_error = Some(Message("cargo not found", None))

\* C6 witness: a start() has just raised HTTP 500 for want of cargo
C6_Witness ==
    \E r \in Roles :
        /\ Returned(r, "start")
        /\ Val(returned[r]).cargo = "missing"
        /\ Val(returned[r]).res.code = 500
        /\ state[r].status = "error"

\* stop() call j of role r reads the handle in this step: a call that finds
\* the lock free, or one handed the lock it waited for
StopReads(r, j) ==
    \/ j = Len(stops[r]) + 1 /\ Len(stops'[r]) = j /\ stops'[r][j].pc # "lock_read"
    \/ j <= Len(stops[r]) /\ stops[r][j].pc = "lock_read"
                          /\ stops'[r][j].pc # "lock_read"

\* C7: a stop() that reads a handle that is null or points at a process that
\* has ended returns at once without raising: it waits for no process (so
\* signals none) and the ProcessState, the handle and the processes are as
\* they were.
C7_StopWithoutProcess ==
    [][\A r \in Roles : \A j \in CallIds :
         (StopReads(r, j) /\ NoLiveHandle(r))
         => /\ stops'[r][j].pc = "done"
            /\ ~IsNone(returned'[r])
            /\ Val(returned'[r]).call = "stop"
            /\ Val(returned'[r]).res.raised = ""
            /\ state'[r] = state[r]
            /\ process'[r] = process[r]
            /\ procs'[r] = procs[r]]_vars

\* C7 witness: a stop() has just returned without a process to wait for,
\* the handle still pointing at a process that has ended
C7_Witness ==
    \E r \in Roles :
        /\ Returned(r, "stop")
        /\ IsNone(Val(returned[r]).proc)
        /\ ~IsNone(process[r])
        /\ state[r].status \in {"starting", "running"}

\* what holds when a stop() that waited for a process returns
StopReturnsExited(r) ==
    (Returned(r, "stop") /\ ~IsNone(Val(returned[r]).proc))
        => /\ state[r].status = "exited"
           /\ ~IsNone(state[r].return_code)
           /\ state[r].return_code = procs[r][Val(Val(returned[r]).proc)].rc
           /\ IsNone(process[r])

\* C8: every stop() call comes to its end, and when a stop() that found a
\* live process returns, the status is `exited`, return_code is the exit
\* code of the process it stopped, and the handle is null.
C8_StopLiveProcess ==
    /\ \A r \in Roles : \A j \in CallIds :
          (j <= Len(stops[r]) /\ stops[r][j].pc # "done")
              ~> (j <= Len(stops[r]) /\ stops[r][j].pc = "done")
    /\ [](\A r \in Roles : StopReturnsExited(r))

\* C8 witness: a stop() has just returned after it had to kill its process,
\* the exit waiter having updated the state before it
C8_Witness ==
    \E r \in Roles :
        /\ Returned(r, "stop")
        /\ ~IsNone(Val(returned[r]).proc)
        /\ procs[r][Val(Val(returned[r]).proc)].waiter = "done"
        /\ procs[r][Val(Val(returned[r]).proc)].rc = Some(1)

\* the payload of the start() call made in this step against the node
NewNodePayload ==
    LET i == Len(starts["node"]) + 1
    IN  IF starts'["node"][i].pc = "done"
        THEN Val(Val(returned'["node"]).arg)
        ELSE Val(starts'["node"][i].arg)

\* C9: a node launch request with mode `join` and no peer address is
\* answered HTTP 422 in the step that makes it: no process is spawned and
\* the ProcessState, the handle, the lock, the lifecycle configuration and
\* the relay's coordinates are unchanged.
C9_InvalidPayloadRejected ==
    [][(Len(starts'["node"]) = Len(starts["node"]) + 1
            /\ NewNodePayload.mode = "join"
            /\ IsNone(NewNodePayload.peer_url))
       => /\ ~IsNone(returned'["node"])
          /\ Val(returned'["node"]).res.code = 422
          /\ Val(returned'["node"]).res.raised = "HTTPException"
          /\ state' = state
          /\ process' = process
          /\ procs' = procs
          /\ lock' = lock
          /\ NODE_LIFECYCLE_STATE' = NODE_LIFECYCLE_STATE
          /\ NODE_RPC' = NODE_RPC]_vars

\* C9 witness: a join request without a peer has just been refused while the
\* node supervisor holds a running process
C9_Witness ==
    /\ Returned("node", "start")
    /\ Val(returned["node"]).res.code = 422
    /\ Val(Val(returned["node"]).arg).mode = "join"
    /\ state["node"].status = "running"

\* C10: for every role, the command stored in the ProcessState holds none of
\* the passphrases start() is given for that role.
C10_CommandRedacted ==
    \A r \in Roles : \A arg \in Args(r) :
        (~IsNone(state[r].command) /\ ~IsNone(Passphrase(r, arg)))
            => ~Contains(Val(state[r].command), Val(Passphrase(r, arg)))

\* ------------------------------------------------ action stream claims
\* s is an initial part of t
IsPrefix(s, t) ==
    /\ Len(s) <= Len(t)
    /\ \A k \in 1..Len(s) : s[k] = t[k]

NotOutput(event) == event.type # "command_output"

\* the events of a run, the lines of output left out
Milestones(g) == SelectSeq(g.events, NotOutput)

\* every command that has ended so far exited 0
NoFailure(g) == \A k \in 1..Len(g.exits) : g.exits[k] = 0

\* the command that ended last exited non-zero
Failed(g) == g.exits # <<>> /\ Last(g.exits) # 0

\* the stream of an action whose commands all exit 0
SuccessStream(action) ==
    LET n == Len(action.commands)
    IN  [k \in 1..(2 * n + 2) |->
            IF k = 1 THEN ActionStartEvent(action)
            ELSE IF k = 2 * n + 2 THEN ActionCompleteEvent(action)
            ELSE IF k % 2 = 0 THEN CommandStartEvent(action, (k - 2) \div 2)
            ELSE CommandEndEvent(action, (k - 3) \div 2, 0)]

\* the stream of an action whose command at index k is the first to exit
\* non-zero, with exit_code
FailureStream(action, k, exit_code) ==
    [j \in 1..(2 * k + 4) |->
        IF j = 2 * k + 4 THEN ActionErrorEvent(action.slug, k, exit_code)
        ELSE IF j = 2 * k + 3 THEN CommandEndEvent(action, k, exit_code)
        ELSE SuccessStream(action)[j]]

\* C11: while every command of a run has exited 0, the events of the run
\* without the output lines are an initial part of: action_start with the
\* number of commands, command_start and command_end(success) for each
\* command in catalog order, action_complete; once the stream is over they
\* are the whole of it, so no action_error is emitted
C11_SuccessStream ==
    (run # None /\ Val(run).pc # "raised" /\ NoFailure(Val(run)))
        => /\ IsPrefix(Milestones(Val(run)), SuccessStream(Val(run).action))
           /\ Val(run).pc = "done"
                => Milestones(Val(run)) = SuccessStream(Val(run).action)

C11_Witness ==
    /\ run # None
    /\ Val(run).pc = "done"
    /\ Len(Val(run).action.commands) = 4
    /\ Val(run).exits = <<0, 0, 0, 0>>
    /\ Len(Val(run).events) > 10

\* C12: once a command of a run has exited non-zero, at index k, every
\* event carries an index of at most k, no action_complete is among them,
\* k + 1 processes were spawned in all (no command after k, none twice),
\* and the stream, once over, is the events of commands 0..k followed by
\* one action_error with index k and the exit code
C12_FailureStream ==
    (run # None /\ Failed(Val(run)))
        => LET g == Val(run)
               k == Len(g.exits) - 1
           IN  /\ g.index = k
               /\ Len(g.processes) = k + 1
               /\ \A j \in 1..k : g.exits[j] = 0
               /\ \A j \in 1..Len(g.events) :
                    /\ g.events[j].type # "action_complete"
                    /\ g.events[j].command_index # None
                         => Val(g.events[j].command_index) <= k
               /\ IsPrefix(Milestones(g),
                           FailureStream(g.action, k, Last(g.exits)))
               /\ g.pc = "done"
                    => Milestones(g) = FailureStream(g.action, k, Last(g.exits))

C12_Witness ==
    /\ run # None
    /\ Val(run).pc = "done"
    /\ Len(Val(run).action.commands) = 4
    /\ Val(run).exits = <<0, 0, 1>>
    /\ Last(Val(run).events).type = "action_error"

\* the run has reached its end: every command has run and exited 0, or
\* one has exited non-zero, or one could not be spawned
RunEnded(g) ==
    \/ Len(g.exits) = Len(g.action.commands) /\ NoFailure(g)
    \/ Failed(g)
    \/ g.pc = "raised"

\* C13: a run whose caller has stopped consuming the stream either has run
\* to completion or to its first failing command, or goes on: its command
\* in progress can still write and exit, or the generator can take its
\* next step
C13_RunOutlivesCaller ==
    (run # None /\ Val(run).consumer = "gone")
        => \/ RunEnded(Val(run))
           \/ ENABLED (GeneratorStep \/ CommandWrites \/ CommandExits)

\* the processes of the run that have not ended
AliveCommands(g) == {k \in 1..Len(g.processes) : IsNone(g.processes[k].rc)}

\* the places in the stream of the events of the type with the index
Places(g, type, index) ==
    {j \in 1..Len(g.events) :
        g.events[j].type = type /\ g.events[j].command_index = Some(index)}

\* C14: in the events of a run, a command_output with index i has a
\* command_start i before it and no command_end i before it, a
\* command_start i + 1 has a command_end i before it, each command is
\* started and ended at most once, and at most one process of the run is
\* alive, that of the command started last and not ended
C14_CommandsInSequence ==
    run # None
        => LET g == Val(run)
           IN  /\ Cardinality(AliveCommands(g)) <= 1
               /\ \A k \in AliveCommands(g) :
                    /\ k = Len(g.processes)
                    /\ Places(g, "command_start", k - 1) # {}
                    /\ Places(g, "command_end", k - 1) = {}
               /\ \A i \in 0..Len(g.action.commands) :
                    /\ Cardinality(Places(g, "command_start", i)) <= 1
                    /\ Cardinality(Places(g, "command_end", i)) <= 1
                    /\ \A j \in Places(g, "command_output", i) :
                         /\ \E s \in Places(g, "command_start", i) : s < j
                         /\ \A e \in Places(g, "command_end", i) : j < e
                    /\ \A j \in Places(g, "command_start", i + 1) :
                         \E e \in Places(g, "command_end", i) : e < j

C14_Witness ==
    /\ run # None
    /\ Places(Val(run), "command_output", 0) # {}
    /\ Places(Val(run), "command_output", 1) # {}
    /\ Places(Val(run), "command_end", 1) # {}
    /\ AliveCommands(Val(run)) = {3}

\* the response to a request to run a slug the catalog does not hold
NotFound(h) == h.op = "run" /\ h.slug \notin Keys(CATALOG)

\* C15: a request to run a slug that is not in the catalog is answered
\* 404 and changes neither the run under way, with its events and its
\* processes, nor the catalog, and the service takes the next request; a
\* command line with such a slug exits with status 1 and has started no
\* command
C15_UnknownSlug ==
    /\ [](http # None /\ NotFound(Val(http))
            => /\ Val(http).code = 404
               /\ (served < MaxRuns /\ NoRunInProgress) => ENABLED RunAction("check"))
    /\ [](cli # None /\ Val(cli).slug \notin Keys(BuildCatalog(ActionList))
            => /\ Val(cli).pc = "exited"
               /\ Val(cli).status = Some(1)
               /\ Val(cli).started = <<>>)
    /\ [][http' # None /\ NotFound(Val(http'))
            => run' = run /\ CATALOG' = CATALOG]_vars

C15_Witness ==
    /\ http # None
    /\ Val(http).slug = UnknownSlug
    /\ Val(http).code = 404
    /\ run # None
    /\ Val(run).pc = "reading"
    /\ Val(run).consumer = "gone"

WellFormed(d) ==
    /\ \A j, k \in 1..Len(d) : j # k => d[j].value.slug # d[k].value.slug
    /\ \A k \in 1..Len(d) : d[k].key = d[k].value.slug
    /\ \A k \in 1..Len(d) : d[k].value.commands # <<>>

\* C17: the catalog of the service is well formed, holds every action of
\* the list under the slug of that action, and is the same after every
\* step; a catalog built from a list of the trials is well formed and
\* stays as it was built
C17_CatalogWellFormed ==
    /\ [](/\ WellFormed(CATALOG)
          /\ \A k \in 1..Len(ActionList) :
               Get(CATALOG, ActionList[k].slug) = Some(ActionList[k])
          /\ build.result # None => WellFormed(Val(build.result).catalog))
    /\ [][/\ CATALOG' = CATALOG
          /\ build.result # None => build' = build]_vars

C17_Witness ==
    /\ served = MaxRuns
    /\ http # None
    /\ Val(http).op = "list"
    /\ run # None
    /\ Val(run).pc = "done"

\* -------------------------------------------------------- relay claims
\* C18: a connect call or an iteration that raises makes the relay yield
\* the disconnection warning and begin its sleep; the relay leaves a
\* sleep only for the head of the loop and reaches a connect call only
\* from there; after a failure the relay calls connect again unless the
\* subscriber cancels it; and the relay is never at an end of its own
C18_RetriesAfterError ==
    /\ [][ws'.status = "failed" /\ ws.status # "failed"
            => /\ yielded' = Some(DisconnectedWarning)
               /\ relay'.pc = "sleep"
               /\ relay'.forwarded = relay.forwarded]_vars
    /\ [][/\ relay.pc = "sleep" => relay'.pc \in {"sleep", "top", "cancelled"}
          /\ (relay'.pc = "connecting" /\ relay.pc # "connecting")
                => relay.pc = "top"]_vars
    /\ [](relay.pc \in {"top", "sleep", "connecting", "open", "cancelled"})
    /\ (ws.status = "failed") ~> (ws.status = "connecting" \/ relay.pc = "cancelled")

C18_Witness ==
    /\ relay.pc = "connecting"
    /\ relay.last = DisconnectedWarning.text
    /\ ws.conn = MaxConns
    /\ relay.forwarded # <<>>

\* C19: while NODE_WS_URL is not set the relay is at the head of its loop
\* or asleep and has attempted no connection; each warning that no URL is
\* configured is yielded from the head of the loop and followed by a
\* sleep, and without a URL the head of the loop yields just that; the
\* loop goes round for ever; and once a node start has set the URL the
\* relay goes on to call connect unless the subscriber cancels it
C19_WaitsForConfiguration ==
    /\ [](IsNone(NODE_WS_URL)
            => /\ relay.pc \in {"top", "sleep", "cancelled"}
               /\ ws = NoChannel
               /\ relay.last \in {"", NotConfiguredWarning.text})
    /\ [][/\ yielded' = Some(NotConfiguredWarning)
             => /\ relay.pc = "top" /\ relay'.pc = "sleep"
                /\ IsNone(NODE_WS_URL)
          /\ (IsNone(NODE_WS_URL) /\ relay.pc = "top" /\ relay' # relay
                /\ relay'.pc # "cancelled")
             => yielded' = Some(NotConfiguredWarning)]_vars
    /\ (relay.pc = "sleep") ~> (relay.pc \in {"top", "cancelled"})
    /\ (relay.pc = "top") ~> (relay.pc \in {"sleep", "connecting", "cancelled"})
    /\ (~IsNone(NODE_WS_URL) /\ relay.pc \in {"top", "sleep"})
          ~> (relay.pc \in {"connecting", "cancelled"})

C19_Witness ==
    /\ relay.pc = "connecting"
    /\ relay.last = NotConfiguredWarning.text
    /\ ws.conn = 0
    /\ ~IsNone(NODE_WS_URL)

\* the messages of seq come connection after connection, those of one
\* connection in the order sent, none left out before one that is there
InOrder(seq) ==
    /\ \A j, k \in 1..Len(seq) :
         j < k => \/ seq[j].conn < seq[k].conn
                  \/ seq[j].conn = seq[k].conn /\ seq[j].seq < seq[k].seq
    /\ \A k \in 1..Len(seq) :
         seq[k].seq > 1
            => k > 1 /\ seq[k - 1] = NodeMessage(seq[k].conn, seq[k].seq - 1)

\* C20: the messages the relay has yielded are the messages its
\* connections have handed to it, connection after connection and in the
\* order the node sent them, none twice; and a step that yields a message
\* yields the one at the head of the open connection
C20_ForwardsInOrder ==
    /\ [](/\ relay.forwarded = ws.delivered
          /\ InOrder(relay.forwarded))
    /\ [][(yielded' # None /\ Val(yielded').kind = "message")
            => /\ ws.inbox # <<>>
               /\ Val(yielded') = Head(ws.inbox)
               /\ Val(yielded').conn = ws.conn
               /\ relay'.forwarded = Append(relay.forwarded, Val(yielded'))]_vars

C20_Witness ==
    /\ Len(relay.forwarded) = MaxConns * MaxMessages
    /\ relay.forwarded[1].conn = 1
    /\ Last(relay.forwarded).conn = MaxConns
    /\ relay.last = DisconnectedWarning.text

\* --------------------------------------------- supervisor claims, II
\* C22: in every state, each of which a status read can observe, a
\* ProcessState with status `starting` or `running` holds the pid of a
\* process the supervisor has spawned
C22_SnapshotNotTorn ==
    \A r \in Roles :
        state[r].status \in {"starting", "running"}
            => /\ ~IsNone(state[r].pid)
               /\ Val(state[r].pid) \in 1..Len(procs[r])

\* start() call i of role r takes the lock at its entry in this step: a
\* new call, valid, that finds the lock free, or a call handed the lock
TakesLock(r, i) ==
    \/ /\ i = Len(starts[r]) + 1
       /\ Len(starts'[r]) = i
       /\ lock[r] = <<>>
       /\ IF IsNone(returned'[r]) THEN TRUE
          ELSE Val(returned'[r]).res.code # 422
    \/ /\ i <= Len(starts[r])
       /\ starts[r][i].pc = "lock_start"
       /\ starts'[r][i].pc # "lock_start"

\* C23: a ProcessState with status `idle`, `exited` or `error` goes with
\* a handle that is null or points at a process that has ended; a start()
\* is rejected with the conflict only in a step in which the handle points
\* at a live process; and a start() that takes the lock while the handle
\* points at none, with an executable that resolves, goes on to spawn
C23_StartAfterFailure ==
    /\ [](\A r \in Roles :
            state[r].status \in {"idle", "exited", "error"} => NoLiveHandle(r))
    /\ [][\A r \in Roles :
            /\ (~IsNone(returned'[r]) /\ Val(returned'[r]).call = "start"
                    /\ Val(returned'[r]).res.code = 409)
                 => ~NoLiveHandle(r)
            /\ \A i \in 1..Len(starts'[r]) :
                 (TakesLock(r, i) /\ NoLiveHandle(r))
                 => \/ starts'[r][i].pc = "spawning"
                    \/ /\ ~IsNone(returned'[r])
                       /\ Val(returned'[r]).cargo = "missing"
                       /\ Val(returned'[r]).res.code = 500]_vars

\* C23 witness: a second start() is about to spawn after the process of
\* the first ended and a start() raised for it
C23_Witness ==
    \E r \in Roles :
        /\ Len(starts[r]) = 2
        /\ starts[r][1].pc = "done"
        /\ starts[r][2].pc = "spawning"
        /\ Len(procs[r]) = 1
        /\ ~Alive(procs[r][1])
        /\ state[r].status \in {"error", "starting"}
        /\ stops[r] = <<>>

\* C25: a start() that returns (HTTP 200, nothing raised) returns a
\* snapshot with status `running`
C25_SuccessIsRunning ==
    \A r \in Roles :
        (Returned(r, "start") /\ Val(returned[r]).res.code = 200)
            => Val(Val(returned[r]).res.snapshot).status = "running"

\* C26: a stop() call is in the wait that follows process.kill() only
\* after the wait that follows process.terminate(), which it enters when it
\* has read a live handle, and leaves for the other only while the process
\* is alive (the timeout); a stop() whose process ends during the first
\* wait goes on to its final block with no kill sent
C26_TwoPhaseStop ==
    [][\A r \in Roles : \A j \in 1..Len(stops'[r]) :
          LET before == IF j <= Len(stops[r]) THEN stops[r][j].pc ELSE "call"
              after == stops'[r][j].pc
          IN  /\ (after = "wait_kill" /\ before # "wait_kill")
                    => /\ before = "wait_term"
                       /\ Alive(procs[r][Val(stops[r][j].process)])
                       /\ stops'[r][j].process = stops[r][j].process
              /\ (after = "wait_term" /\ before # "wait_term")
                    => /\ before \in {"call", "lock_read"}
                       /\ stops'[r][j].process = process[r]
                       /\ ~NoLiveHandle(r)
              /\ (before = "wait_term"
                    /\ ~Alive(procs[r][Val(stops[r][j].process)]))
                    => after \in {"wait_term", "lock_final", "done"}]_vars

\* C26 witness: one stop() has killed after the timeout, and another has
\* ended without a kill
C26_Witness ==
    \E r \in Roles :
        /\ Len(stops[r]) = 1
        /\ stops[r][1].pc = "wait_kill"
        /\ ~Alive(procs[r][Val(stops[r][1].process)])

\* C27: the status becomes `running` only from `starting`, in the step in
\* which a start() call that has slept through the grace interval, and
\* has not found an ended process in the handle then, runs its last block
\* and returns; and the status never becomes `idle` again
C27_RunningOnlyAfterGrace ==
    [][\A r \in Roles :
          /\ (state'[r].status = "running" /\ state[r].status # "running")
                => /\ state[r].status = "starting"
                   /\ ~IsNone(returned'[r])
                   /\ Val(returned'[r]).call = "start"
                   /\ Val(returned'[r]).res.code = 200
                   /\ LET i == Val(returned'[r]).id
                      IN  \/ starts[r][i].pc = "lock_running"
                          \/ /\ starts[r][i].pc = "grace"
                             /\ ~ExitedDuringStartup(World(r))
          /\ \A i \in 1..Len(starts'[r]) :
                (starts'[r][i].pc = "lock_running"
                    /\ (i > Len(starts[r]) \/ starts[r][i].pc # "lock_running"))
                => /\ i <= Len(starts[r])
                   /\ starts[r][i].pc = "grace"
                   /\ ~ExitedDuringStartup(World(r))
          /\ state'[r].status = "idle" => state[r].status = "idle"]_vars

\* C27 witness: the second of two start() calls has just set `running`
\* and returned
C27_Witness ==
    \E r \in Roles :
        /\ Returned(r, "start")
        /\ Val(returned[r]).res.code = 200
        /\ state[r].status = "running"
        /\ Len(starts[r]) = 2
        /\ Val(returned[r]).id = 2
        /\ ~IsNone(process[r])

\* C28: once the exit waiter of a process that ended of itself, under a
\* supervisor that was never asked to stop and has spawned no other
\* process, has run, the status is `exited` for exit code 0 and `error`
\* otherwise, return_code is the exit code and the handle is null
C28_ExitReachesState ==
    \A r \in Roles :
        (Len(procs[r]) = 1 /\ stops[r] = <<>> /\ Len(starts[r]) = 1
            /\ procs[r][1].waiter = "done")
            => /\ state[r].status =
                    IF procs[r][1].rc = Some(0) THEN "exited" ELSE "error"
               /\ state[r].return_code = procs[r][1].rc
               /\ IsNone(process[r])

\* ------------------------------------------------------ listing claims
\* listing holds every action of catalog d once, the categories in sorted
\* order and the actions of one category in the order of their slugs
GroupedAndSorted(listing, d) ==
    /\ Len(listing) = Len(d)
    /\ \A k \in 1..Len(d) : \E j \in 1..Len(listing) : listing[j] = d[k].value
    /\ \A j \in 1..(Len(listing) - 1) : PrintedBefore(listing[j], listing[j + 1])

\* C24: the body of GET /actions, the table printed by dashboard.py --list
\* and the export of the catalog each hold every action once, grouped by
\* category, the categories sorted and the actions sorted by slug in each
C24_ListGroupedSorted ==
    /\ (http # None /\ Val(http).op = "list")
          => GroupedAndSorted(Val(http).body, CATALOG)
    /\ stdout # None
          => GroupedAndSorted(Val(stdout).actions, BuildCatalog(ActionList))

\* the table of the command line alone is grouped and sorted
C24_TableGroupedSorted ==
    (stdout # None /\ Val(stdout).program = "dashboard.py")
        => GroupedAndSorted(Val(stdout).actions, BuildCatalog(ActionList))

\* -------------------------------------------------- executor claims
\* C30: a run that can take no further step (its generator is not
\* resumed, its command neither writes nor ends) has spawned one process
\* for each command it has started and has waited for each of them
C30_EveryProcessReaped ==
    run # None
        => /\ Len(Val(run).processes) <= Val(run).index + 1
           /\ ~ENABLED (GeneratorStep \/ CommandWrites \/ CommandExits)
                => Len(Val(run).exits) = Len(Val(run).processes)

\* ------------------------------------------------------ log tail claims
\* a start() call of role r takes the lock or has its spawn return in this
\* step: the steps in which start() replaces the state object
StartAdvances(r) ==
    \E i \in 1..Len(starts'[r]) :
        \/ TakesLock(r, i)
        \/ /\ i <= Len(starts[r])
           /\ starts[r][i].pc = "spawning"
           /\ starts'[r][i].pc # "spawning"

\* C29: the tail holds at most TailCap lines; they are consecutive lines
\* in arrival order and end with the latest line that arrived; a line
\* that arrives is appended, the oldest entry leaving a tail that is full,
\* whether the write to the log file succeeds or fails; no other step
\* changes the tail but a start() that resets the state to an empty tail
C29_TailHoldsLatest ==
    /\ [](\A r \in active :
            LET tail == state[r].stderr_tail
            IN  /\ Len(tail) <= TailCap
                /\ \A k \in 1..(Len(tail) - 1) : tail[k + 1] = tail[k] + 1
                /\ tail # <<>> => Last(tail) = logfile[r].lines)
    /\ [][\A r \in active :
            LET tail == state[r].stderr_tail
                n == logfile[r].lines + 1
            IN  IF logfile'[r].lines = n
                THEN state'[r].stderr_tail =
                        IF Len(tail) < TailCap THEN Append(tail, n)
                        ELSE Append(Tail(tail), n)
                ELSE \/ state'[r].stderr_tail = tail
                     \/ /\ state'[r].stderr_tail = <<>>
                        /\ StartAdvances(r)]_vars

\* the second process of a role has filled the tail, the oldest lines
\* have left it, and a write to the log file has failed
C29_Witness ==
    \E r \in active :
        /\ Len(procs[r]) = MaxLogStarts
        /\ Len(state[r].stderr_tail) = TailCap
        /\ Head(state[r].stderr_tail) > 1
        /\ logfile[r].lost

\* ------------------------------------------------------ shutdown claims
\* the shutdown handler has run and its stop() call has returned
ShutdownFinished(r) ==
    /\ ~IsNone(cleanup)
    /\ stops[r][Val(cleanup)].pc = "done"

\* C21: once the shutdown handler has finished the role has no process
\* that is still alive, whatever start() calls were under way when the
\* handler began
C21_ShutdownStopsAll ==
    \A r \in active : ShutdownFinished(r) => Live(r) = {}

\* ---------------------------------------------------- validation claims
\* the three grounds for refusing a launch payload
JoinWithoutPeer(payload) == payload.mode = "join" /\ payload.peer_url = None

MutualAuthWithoutTls(payload) == payload.routing.mtls /\ ~payload.routing.tls

LocalOnlyWithOverlay(payload) ==
    payload.routing.local_only /\ (payload.routing.vpn \/ payload.routing.tor)

\* C32: a payload is refused (422) exactly when it joins without a peer
\* address, asks for mutual authentication without transport encryption,
\* or is local-only with a VPN or Tor overlay; every other payload is
\* accepted (200) and recorded
C32_ValidationRules ==
    (http # None /\ Val(http).op = "lifecycle")
        => LET payload == Val(http).payload
               refused == \/ JoinWithoutPeer(payload)
                          \/ MutualAuthWithoutTls(payload)
                          \/ LocalOnlyWithOverlay(payload)
           IN  /\ Val(http).code = IF refused THEN 422 ELSE 200
               /\ ~refused => NODE_LIFECYCLE_STATE.routing = payload.routing

\* a payload that joins a peer over mutual TLS through both relays, not
\* local-only, has been accepted
C32_Witness ==
    /\ http # None
    /\ Val(http).op = "lifecycle"
    /\ Val(http).code = 200
    /\ Val(http).payload.mode = "join"
    /\ Val(http).payload.routing.mtls
    /\ Val(http).payload.routing.vpn
    /\ Val(http).payload.routing.tor

\* -------------------------------------------------- executor claims, II
\* C31: for the process of each command the executor has waited for, the
\* stream holds one command_end with the command's index; it carries the
\* exit code of the process, with status success exactly for exit code 0;
\* every line the process wrote is a command_output event before it, and
\* none comes after it. A process not yet waited for has no command_end
C31_OneCommandEnd ==
    run # None
        => LET g == Val(run)
           IN  \A k \in 1..Len(g.processes) :
                 LET ends == Places(g, "command_end", k - 1)
                     outputs == Places(g, "command_output", k - 1)
                 IN  /\ Cardinality(outputs) = g.processes[k].read
                     /\ IF k <= Len(g.exits)
                        THEN /\ Cardinality(ends) = 1
                             /\ g.processes[k].rc = Some(g.exits[k])
                             /\ g.processes[k].read = g.processes[k].written
                             /\ \A e \in ends :
                                  /\ g.events[e].exit_code = Some(g.exits[k])
                                  /\ g.events[e].status = "success"
                                       <=> g.exits[k] = 0
                                  /\ g.events[e].status \in {"success", "error"}
                                  /\ \A o \in outputs : o < e
                        ELSE ends = {}

\* a command that wrote a line has ended with a non-zero exit code after
\* one that ended with 0
C31_Witness ==
    /\ run # None
    /\ Val(run).exits = <<0, 1>>
    /\ Places(Val(run), "command_output", 1) # {}
    /\ \E e \in Places(Val(run), "command_end", 1) :
          Val(run).events[e].status = "error"

\* the indexes of the command_start events of a run, in stream order
IsCommandStart(event) == event.type = "command_start"

StartedByStream(g) ==
    LET starts_ == SelectSeq(g.events, IsCommandStart)
    IN  [k \in 1..Len(starts_) |-> Val(starts_[k].command_index)]

\* the exit codes seen so far are those that assignment a gives
Agrees(exits, a) ==
    /\ Len(exits) <= Len(a)
    /\ \A k \in 1..Len(exits) : exits[k] = a[k]

\* C40: a stream read to its end and a command line that has exited, of
\* the same action and with the same exit codes for its commands, have
\* started the same commands in the same order, and the command line
\* returns True (status 0) exactly when the stream ends with
\* action_complete, False (status 1) exactly when it ends with action_error
C40_SamePolicy ==
    (/\ run # None
     /\ cli # None
     /\ Val(run).pc = "done"
     /\ Val(cli).pc = "exited"
     /\ Val(cli).raised = ""
     /\ Val(cli).slug = Val(run).action.slug)
        => LET g == Val(run)
               c == Val(cli)
           IN  \A a \in [1..Len(g.action.commands) -> ExitCodes] :
                  (Agrees(g.exits, a) /\ Agrees(c.exits, a))
                     => /\ StartedByStream(g) = c.started
                        /\ g.exits = c.exits
                        /\ c.status = Some(0)
                             <=> Last(g.events).type = "action_complete"
                        /\ c.status = Some(1)
                             <=> Last(g.events).type = "action_error"

\* both have run an action of four commands whose third command failed
C40_Witness ==
    /\ run # None
    /\ cli # None
    /\ Val(run).pc = "done"
    /\ Val(cli).pc = "exited"
    /\ Val(cli).slug = Val(run).action.slug
    /\ Val(run).exits = <<0, 0, 1>>
    /\ Val(cli).exits = <<0, 0, 1>>

\* the places of the terminal events of a run
Terminals(g) ==
    {j \in 1..Len(g.events) :
        g.events[j].type \in {"action_complete", "action_error"}}

\* C38: a run that is over and has emitted action_start holds one terminal
\* event, its last event, and each command_start is followed by a
\* command_end with the same index, also when a process cannot be spawned
C38_StreamWellBracketed ==
    (run # None /\ RunOver(Val(run)) /\ Val(run).events # <<>>)
        => LET g == Val(run)
           IN  /\ Terminals(g) = {Len(g.events)}
               /\ \A j \in 1..Len(g.events) :
                    g.events[j].type = "command_start"
                        => \E e \in Places(g, "command_end",
                                           Val(g.events[j].command_index)) :
                              e > j

\* the same for the runs in which every process could be spawned
C38_BracketedWhenSpawned ==
    (run # None /\ Val(run).pc = "done")
        => LET g == Val(run)
           IN  /\ Terminals(g) = {Len(g.events)}
               /\ \A j \in 1..Len(g.events) :
                    g.events[j].type = "command_start"
                        => \E e \in Places(g, "command_end",
                                           Val(g.events[j].command_index)) :
                              e > j

\* ----------------------------------------------------- relay claims, II
\* C39: once the relay has attempted a connection it comes back to the
\* head of its loop, from where alone it calls connect, only out of the
\* backoff sleep: between two connection attempts lies a sleep, however
\* the earlier connection ended
C39_BackoffBetweenAttempts ==
    [][/\ (relay'.pc = "connecting" /\ relay.pc # "connecting")
            => relay.pc = "top"
       /\ (relay'.pc = "top" /\ relay.pc # "top" /\ ws'.status # "none")
            => relay.pc = "sleep"]_vars

\* the same for the connections that end with an error
C39_BackoffAfterError ==
    [][/\ (relay'.pc = "connecting" /\ relay.pc # "connecting")
            => relay.pc = "top"
       /\ (relay'.pc = "top" /\ relay.pc # "top" /\ ws'.status = "failed")
            => relay.pc = "sleep"]_vars

\* --------------------------------------------------- supervisor claims, III
\* the task at the head of role r's lock takes this step
HolderStepped(r) ==
    /\ lock[r] # <<>>
    /\ LET t == Head(lock[r])
       IN  CASE t.kind = "start" -> starts'[r][t.id] # starts[r][t.id]
             [] t.kind = "stop" -> stops'[r][t.id] # stops[r][t.id]
             [] OTHER -> procs'[r][t.id].waiter # procs[r][t.id].waiter

\* a start() call, a stop() call or an exit waiter of role r takes this
\* step (and, the lock being free, may take it for the step)
TaskStepped(r) ==
    \/ starts'[r] # starts[r]
    \/ stops'[r] # stops[r]
    \/ \E p \in 1..Len(procs[r]) : procs'[r][p].waiter # procs[r][p].waiter

\* C33: a step that changes a role's ProcessState or its handle is a step
\* of the task that holds the role's lock, or, the lock being free, of a
\* task that takes it
C33_WritesUnderLock ==
    [][\A r \in Roles :
          (state'[r] # state[r] \/ process'[r] # process[r])
             => IF lock[r] = <<>> THEN TaskStepped(r) ELSE HolderStepped(r)]_vars

\* C34: every process of a role that is alive is the one the role's
\* handle points at
C34_HandleKeepsLive ==
    \A r \in Roles : \A p \in Live(r) : process[r] = Some(p)

\* C35: while the status of a role is idle, exited or error, no process
\* the role's supervisor spawned is alive
C35_StatusCoversLive ==
    \A r \in Roles :
        state[r].status \in {"idle", "exited", "error"} => Live(r) = {}

\* C36: a ProcessState with a pid and a return_code holds the exit code of
\* the process with that pid
C36_ReturnCodeOfPid ==
    \A r \in Roles :
        (~IsNone(state[r].pid) /\ ~IsNone(state[r].return_code))
            => state[r].return_code = procs[r][Val(state[r].pid)].rc

\* C37: a start() call that has spawned a process and returns reports on
\* that process: a snapshot returned carries its pid, and the step changes
\* the state or the handle only while the handle points at it
C37_OutcomeOfOwnProcess ==
    [][\A r \in Roles :
          (/\ ~IsNone(returned'[r])
           /\ Val(returned'[r]).call = "start"
           /\ ~IsNone(Val(returned'[r]).proc))
             => LET own == Val(returned'[r]).proc
                    res == Val(returned'[r]).res
                IN  /\ res.code = 200
                       => /\ ~IsNone(res.snapshot)
                          /\ Val(res.snapshot).pid = own
                    /\ (state'[r] # state[r] \/ process'[r] # process[r])
                       => process[r] = own]_vars

====
